---- MODULE Spec2Model ----
(***************************************************************************)
(* A model of the context-retrieval core of src/mcp_integration.py:        *)
(* CompanyDataMCPServer (load_data, search_data, handle_request) and       *)
(* CompanyDataMCPClient (request_company_data, format_for_llm).            *)
(*                                                                         *)
(* Python strings are modelled as tuples of one-character strings, so that *)
(* str.lower() and the substring test `a in b` are computed, not assumed.  *)
(* Python None is modelled per field: the model name "None" for            *)
(* embedding_model, and a record with none = TRUE for an array.            *)
(***************************************************************************)
EXTENDS Integers, Sequences, FiniteSets, TLC

(* ------------------------------ bounds -------------------------------- *)

\* the largest number of records in the corpus source
MaxDocs == 4

\* top_k arguments range over -1 .. MaxTopK
MaxTopK == 3

\* the embedding model's weights range over 0 .. MaxWeights
MaxWeights == 0

(* ------------------------- program constants -------------------------- *)

\* search_data's default top_k
DefaultTopK == 3

\* search_data's default similarity_threshold, in tenths (0.3)
DefaultThreshold == 3

(* ------------------------------ strings ------------------------------- *)

UpperLetters == <<"A", "B", "C", "D", "E", "F", "G", "H", "I", "J", "K", "L", "M", "N", "O", "P", "Q", "R", "S", "T", "U", "V", "W", "X", "Y", "Z">>

LowerLetters == <<"a", "b", "c", "d", "e", "f", "g", "h", "i", "j", "k", "l", "m", "n", "o", "p", "q", "r", "s", "t", "u", "v", "w", "x", "y", "z">>

OtherChars == <<" ", "0", "1", "2", "3", "4", "5", "6", "7", "8", "9", "?", ".", "-", ":">>

Alphabet == UpperLetters \o LowerLetters \o OtherChars

\* the position of character c in sequence s, 0 when absent
IndexOf(c, s) == IF \E i \in 1..Len(s) : s[i] = c
                 THEN CHOOSE i \in 1..Len(s) : s[i] = c
                 ELSE 0

\* str.lower() on one character
LowerChar(c) == IF IndexOf(c, UpperLetters) > 0
                THEN LowerLetters[IndexOf(c, UpperLetters)]
                ELSE c

\* str.lower() on every character, computed once
LowerOf == [c \in {Alphabet[i] : i \in 1..Len(Alphabet)} |-> LowerChar(c)]

\* str.lower()
lower(s) == [i \in 1..Len(s) |-> LowerOf[s[i]]]

\* the Python test `needle in hay` on strings
Contains(needle, hay) ==
    \E i \in 0..(Len(hay) - Len(needle)) :
        SubSeq(hay, i + 1, i + Len(needle)) = needle

EmptyString == <<>>

\* the elements of a sequence
Range(s) == {s[i] : i \in 1..Len(s)}

\* str(n) for a one-digit n
IntText == [n \in 0..9 |-> <<"0", "1", "2", "3", "4", "5", "6", "7", "8", "9">>[n + 1]]

Space == <<" ">>

(* --------------------------- corpus records --------------------------- *)

TitleProfile == <<"C", "o", "m", "p", "a", "n", "y", " ", "P", "r", "o", "f", "i", "l", "e">>

ContentProfile == <<"T", "e", "c", "h", "C", "o", "r", "p", " ", "w", "a", "s", " ", "f", "o", "u", "n", "d", "e", "d", " ", "i", "n", " ", "2", "0", "1", "0">>

TitleProducts == <<"P", "r", "o", "d", "u", "c", "t", "s">>

ContentProducts == <<"T", "e", "c", "h", "C", "o", "r", "p", " ", "o", "f", "f", "e", "r", "s", " ", "T", "e", "c", "h", "A", "s", "s", "i", "s", "t">>

TitleTeam == <<"T", "e", "a", "m">>

ContentTeam == <<"A", "I", " ", "t", "o", "o", "l", "s", " ", "t", "e", "a", "m">>

TitlePricing == <<"P", "r", "i", "c", "i", "n", "g">>

ContentPricing == <<"T", "e", "c", "h", "A", "s", "s", "i", "s", "t", " ", "p", "l", "a", "n", "s">>

ContentUntitled == <<"d", "r", "a", "f", "t">>

\* the two documents of the TechCorp corpus
DocProfile == [id |-> <<"1">>, title |-> TitleProfile, content |-> ContentProfile]

DocProducts == [id |-> <<"2">>, title |-> TitleProducts, content |-> ContentProducts]

DocPricing == [id |-> <<"3">>, title |-> TitlePricing, content |-> ContentPricing]

\* a record without an id field
DocNoId == [title |-> TitleTeam, content |-> ContentTeam]

\* a record without a title field
DocNoTitle == [id |-> <<"4">>, content |-> ContentUntitled]

\* the records in the order the corpus file lists them
RecordOrder == <<DocProfile, DocProducts, DocPricing, DocNoId, DocNoTitle>>

RecordPool == {RecordOrder[i] : i \in 1..Len(RecordOrder)}

TechCorpCorpus == <<DocProfile, DocProducts>>

\* the lists of at most n distinct records of S (record ids are unique), in
\* the file's order
SeqUpTo(S, n) ==
    {SelectSeq(RecordOrder, LAMBDA d : d \in T) :
        T \in {U \in SUBSET S : Cardinality(U) <= n}}

\* what open(data_path) / json.load can meet: no readable file, a file that
\* is not JSON, or a JSON list of records
Sources ==
    {[kind |-> "missing", records |-> <<>>], [kind |-> "malformed", records |-> <<>>]}
    \cup {[kind |-> "json", records |-> r] : r \in SeqUpTo(RecordPool, MaxDocs)}

(* ------------------------------ queries ------------------------------- *)

QueryTechCorp == <<"T", "e", "c", "h", "C", "o", "r", "p">>

QueryFounded == <<"W", "h", "e", "n", " ", "w", "a", "s", " ", "T", "e", "c", "h", "C", "o", "r", "p", " ", "f", "o", "u", "n", "d", "e", "d", "?">>

QueryTeam == <<"T", "E", "A", "M">>

Queries == {EmptyString, QueryTechCorp, QueryFounded, QueryTeam}

TopKs == (0 - 1)..MaxTopK

\* similarity_threshold arguments, in tenths
Thresholds == {DefaultThreshold, 9}

(* ------------------------ the embedding model ------------------------- *)

\* the vectors the modelled encoder produces: like those of the pinned
\* sentence-embedding model they have one common norm, except the zero vector
Vectors == << <<3, 4>>, <<4, 3>>, <<5, 0>>, <<0, 5>>, <<0 - 3, 4>>, <<0, 0>>, <<0 - 5, 0>> >>

RECURSIVE Hash(_)
\* a deterministic digest of a text
Hash(text) == IF text = <<>> THEN 0
              ELSE (Len(text) * IndexOf(Head(text), Alphabet) + Hash(Tail(text))) % Len(Vectors)

\* the texts that are ever encoded: title + ' ' + content of a record, and
\* the queries
Texts == {r.title \o Space \o r.content :
             r \in {d \in RecordPool : {"title", "content"} \subseteq DOMAIN d}}
         \cup Queries

\* the digest of every text, computed once
Digest == [t \in Texts |-> Hash(t)]

\* embedding_model.encode of one text under model weights w: deterministic
\* and stateless, a fixed function of the text
encode(w, text) == Vectors[((Digest[text] * (w + 1) + w) % Len(Vectors)) + 1]

\* Python None for an array-valued attribute, and an array of rows
NoneArray == [none |-> TRUE, rows |-> <<>>]

Array(rows) == [none |-> FALSE, rows |-> rows]

ModelName == "all-MiniLM-L6-v2"

(* ------------------------------ numpy --------------------------------- *)

Abs(x) == IF x < 0 THEN 0 - x ELSE x

Min(a, b) == IF a < b THEN a ELSE b

Max(a, b) == IF a < b THEN b ELSE a

\* np.dot of two vectors
Dot(u, v) == u[1] * v[1] + u[2] * v[2]

\* np.linalg.norm of a vector (the encoder's vectors have integer norms)
Norm(v) == CHOOSE n \in 0..(Abs(v[1]) + Abs(v[2])) : n * n = Dot(v, v)

\* the similarity of line 50, dot / (norm * norm + 1e-10), kept as the
\* pair (num, den) that stands for num / (den + 1e-10)
Similarity(d, q) == [num |-> Dot(d, q), den |-> Norm(d) * Norm(q)]

\* a.num / (a.den + eps) < b.num / (b.den + eps) for eps = 1e-10: cross
\* multiplied, a.num*b.den - b.num*a.den < eps * (b.num - a.num); the left
\* side is an integer and the right side is smaller than 1 in magnitude
SimLess(a, b) ==
    LET l == a.num * b.den - b.num * a.den
        r == b.num - a.num
    IN  l < 0 \/ (l = 0 /\ r > 0)

\* np.argsort(sims): the indices in non-decreasing order of similarity.
\* The default sort kind is not stable, so the order of equal elements is
\* the build's: ties is "stable" (lower index first) or "reversed"
argsort(sims, ties) ==
    LET n == Len(sims)
        Before(j, i) ==
            \/ SimLess(sims[j], sims[i])
            \/ /\ ~SimLess(sims[i], sims[j])
               /\ IF ties = "stable" THEN j < i ELSE j > i
    IN  [p \in 1..n |->
            CHOOSE i \in 1..n : Cardinality({j \in 1..n : Before(j, i)}) = p - 1]

\* the reversal left out: the ascending order is kept
ReverseForgotten(s) == s

\* s[::-1]
Reverse(s) == [i \in 1..Len(s) |-> s[Len(s) + 1 - i]]

\* the slice taken one element too short
SliceToExclusive(s, k) == SubSeq(s, 1, Min(k - 1, Len(s)))

\* the slice taken one element too long
SliceToInclusive(s, k) == SubSeq(s, 1, Min(k + 1, Len(s)))

\* s[:k], for k of either sign
SliceTo(s, k) == IF k >= 0 THEN SubSeq(s, 1, Min(k, Len(s)))
                 ELSE SubSeq(s, 1, Max(Len(s) + k, 0))

(* ------------------------------- state -------------------------------- *)

VARIABLES
    server,        \* the CompanyDataMCPServer's attributes
    source,        \* what is at data_path: the static corpus source
    load_status,   \* how the last load_data ended
    weights,       \* the weights of the pinned embedding model
    argsort_ties,  \* how this build's argsort orders equal elements
    call,          \* the last call made on the server and what it returned
    threads,       \* the searches in flight on the server, one per caller
    files,         \* the files of the PersistenceManager's storage_dir
    saved,         \* per session id, the data of its last save that returned
                   \* True, until the session is deleted
    uuids,         \* how many ids uuid.uuid4() has produced
    pm_call,       \* the last call made on the PersistenceManager
    objects,       \* the agent objects of src/adk_agents.py, by name
    registry,      \* the names registered in the AgentRegistry, in order
    adk_calls,     \* how many calls were made on the agents
    adk_call,      \* the last call made on the agents and what it returned
    session_state, \* st.session_state.current_page and .navigate_to
    sidebar,       \* the page selected in the sidebar radio
    rendered,      \* the page function the last script run dispatched to
    visited_pages  \* st.session_state.visited_pages

\* the variables of src/persistence.py
pm_vars == <<files, saved, uuids, pm_call>>

\* the variables of src/mcp_integration.py
mcp_vars == <<server, source, load_status, weights, argsort_ties, call, threads>>

\* the variables of src/adk_agents.py
adk_vars == <<objects, registry, adk_calls, adk_call>>

\* the variables of src/app.py
app_vars == <<session_state, sidebar, rendered, visited_pages>>

vars == <<server, source, load_status, weights, argsort_ties, call, threads,
          pm_vars, adk_vars, app_vars>>

\* a PersistenceManager on a fresh storage_dir, before any call
NoPmCall ==
    [op |-> "__init__", session_id |-> <<>>, data |-> <<>>, returned |-> TRUE,
     loaded |-> <<>>, id |-> <<>>, sessions |-> <<>>, raised |-> FALSE]

PersistenceManagerNew ==
    /\ files = <<>>
    /\ saved = <<>>
    /\ uuids = 0
    /\ pm_call = NoPmCall

\* no agent is created and an AgentRegistry is empty, before any call
NoAdkCall ==
    [op |-> "__init__", raised |-> FALSE, returned |-> <<>>, log |-> <<>>]

NoAgents ==
    /\ objects = <<>>
    /\ registry = <<>>
    /\ adk_calls = 0
    /\ adk_call = NoAdkCall

\* the session state as lines 20-46 of app.py initialise it, the sidebar
\* radio on its first option, before the first dispatch
AppStarted ==
    /\ session_state = [current_page |-> "home", navigate_to |-> "None"]
    /\ sidebar = "home"
    /\ rendered = "None"
    /\ visited_pages = {}

\* the object before __init__ has run load_data: no attribute is set
Unconstructed ==
    [company_data |-> <<>>, doc_embeddings |-> NoneArray, embedding_model |-> "None"]

\* how SentenceTransformer(...) and encode(...) may end in load_data
ModelOutcomes == {"ok", "init_raises", "encode_raises"}

(* ------------------------------ load_data ----------------------------- *)

\* the except branch without line 28: the documents read are kept
LoadFailedKeepsData(self) ==
    [self EXCEPT !.doc_embeddings = NoneArray, !.embedding_model = "None"]

\* the except branch without lines 29-30: the old embeddings and model stay
LoadFailedKeepsEmbeddings(self) == [self EXCEPT !.company_data = <<>>]

\* the except branch of load_data, lines 26-30
LoadFailed(self) ==
    [self EXCEPT !.company_data = <<>>,
                 !.doc_embeddings = NoneArray,
                 !.embedding_model = "None"]

\* a record from which line 24 can build title + ' ' + content
HasText(doc) == "title" \in DOMAIN doc /\ "content" \in DOMAIN doc

DocText(doc) == doc.title \o Space \o doc.content

\* load_data: the attributes afterwards and how the load ended. Line 19
\* assigns company_data before the model is built, so the except branch runs
\* on an object that already holds the new documents. doc_texts, which
\* nothing reads after line 25, is the local texts
load_data(self, src, outcome, w) ==
    IF src.kind # "json"
    THEN [self |-> LoadFailed(self), status |-> "no_corpus"]
    ELSE LET data == src.records
             read == [self EXCEPT !.company_data = data]
             built == [read EXCEPT !.embedding_model = ModelName]
             texts == [i \in 1..Len(data) |-> DocText(data[i])]
         IN  IF outcome = "init_raises"
             THEN [self |-> LoadFailed(read), status |-> "no_embedding"]
             ELSE IF \E i \in 1..Len(data) : ~HasText(data[i])
             THEN [self |-> LoadFailed(built), status |-> "bad_record"]
             ELSE IF outcome = "encode_raises"
             THEN [self |-> LoadFailed(built), status |-> "no_embedding"]
             ELSE [self |-> [built EXCEPT !.doc_embeddings =
                                Array([i \in 1..Len(data) |-> encode(w, texts[i])])],
                   status |-> "ok"]

(* ----------------------------- search_data ---------------------------- *)

\* the condition of line 36: the keyword fallback is taken
KeywordMode(self) ==
    self.embedding_model = "None" \/ self.doc_embeddings.none

\* the filter of line 39 on one document; it raises KeyError on a document
\* without the field it reads
KeywordRaises(doc, query_l) ==
    \/ "title" \notin DOMAIN doc
    \/ /\ "content" \notin DOMAIN doc
       /\ ~Contains(query_l, lower(doc.title))

\* the words of a text: its maximal runs without a space
Words(text) ==
    {SubSeq(text, p[1], p[2]) :
        p \in {q \in (1..Len(text)) \X (1..Len(text)) :
                  /\ q[1] <= q[2]
                  /\ \A k \in q[1]..q[2] : text[k] # " "
                  /\ q[1] = 1 \/ text[q[1] - 1] = " "
                  /\ q[2] = Len(text) \/ text[q[2] + 1] = " "}}

\* the filter matching a document that contains any one word of the query
KeywordMatchAnyWord(doc, query_l) ==
    \E word \in Words(query_l) :
        Contains(word, lower(doc.title)) \/ Contains(word, lower(doc.content))

\* the documents' side of the match not lowered
KeywordMatchCaseSensitive(doc, query_l) ==
    \/ Contains(query_l, doc.title)
    \/ Contains(query_l, doc.content)

KeywordMatch(doc, query_l) ==
    \/ Contains(query_l, lower(doc.title))
    \/ Contains(query_l, lower(doc.content))

\* the filter of line 39 for every pooled record with both fields and every
\* lowered query, computed once
KeywordHits ==
    [doc \in {d \in RecordPool : {"title", "content"} \subseteq DOMAIN d} |->
        [query_l \in {lower(q) : q \in Queries} |-> KeywordMatch(doc, query_l)]]

\* the indices (1-based) of the documents line 39 keeps, in corpus order
KeywordIndices(data, query_l) ==
    LET idx == [i \in 1..Len(data) |-> i]
    IN  SelectSeq(idx, LAMBDA i : KeywordHits[data[i]][query_l])

\* the similarities of line 50, one per row of doc_embeddings
Similarities(self, query_emb) ==
    [i \in 1..Len(self.doc_embeddings.rows) |->
        Similarity(self.doc_embeddings.rows[i], query_emb)]

\* what a search returns: the documents (results), their corpus indices
\* (top_indices), the exception raised if any, the branch taken and the
\* server's attributes afterwards
Found(raised, path, data, indices, self) ==
    [raised |-> raised, path |-> path,
     results |-> [p \in 1..Len(indices) |-> data[indices[p]]],
     top_indices |-> indices, self |-> self]

\* the keyword fallback attempting the model again and keeping it
keyword_search_retrying(self, query, top_k) ==
    LET query_l == lower(query)
        data == self.company_data
    IN  Found("", "keyword", data, KeywordIndices(data, query_l),
              [self EXCEPT !.embedding_model = ModelName,
                           !.doc_embeddings = Array(<<>>)])

\* the keyword fallback cut to top_k documents, as the embedding search is
keyword_search_truncated(self, query, top_k) ==
    LET query_l == lower(query)
        data == self.company_data
    IN  IF \E i \in 1..Len(data) : KeywordRaises(data[i], query_l)
        THEN Found("KeyError", "keyword", data, <<>>, self)
        ELSE Found("", "keyword", data,
                   SliceTo(KeywordIndices(data, query_l), top_k), self)

\* lines 37-44: the keyword fallback. top_k is in scope and not read
keyword_search(self, query, top_k) ==
    LET query_l == lower(query)
        data == self.company_data
    IN  IF \E i \in 1..Len(data) : KeywordRaises(data[i], query_l)
        THEN Found("KeyError", "keyword", data, <<>>, self)
        ELSE Found("", "keyword", data, KeywordIndices(data, query_l), self)

\* sim < threshold / 10 for the similarity sim = num / (den + 1e-10):
\* 10 * num - threshold * den < threshold * 1e-10, an integer against a
\* number of magnitude below 1
BelowThreshold(sim, threshold) ==
    IF threshold > 0 THEN 10 * sim.num - threshold * sim.den <= 0
                     ELSE 10 * sim.num - threshold * sim.den < 0

\* the embedding search with similarity_threshold enforced: of the top_k
\* documents, those below the threshold are dropped
embedding_search_thresholded(self, query, top_k, similarity_threshold) ==
    LET data == self.company_data
        query_emb == encode(weights, query)
    IN  IF \E i \in 1..Len(data) : "title" \notin DOMAIN data[i]
        THEN Found("KeyError", "embedding", data, <<>>, self)
        ELSE IF Len(self.doc_embeddings.rows) = 0
        THEN Found("ValueError", "embedding", data, <<>>, self)
        ELSE LET similarities == Similarities(self, query_emb)
                 top_indices == Reverse(argsort(similarities, argsort_ties))
                 kept == SelectSeq(SliceTo(top_indices, top_k),
                             LAMBDA i : ~BelowThreshold(similarities[i],
                                                        similarity_threshold))
             IN  Found("", "embedding", data, kept, self)

\* lines 45-54: every corpus index, most similar first, or the exception
\* raised on the way
ranking(self, query) ==
    LET data == self.company_data
        query_emb == encode(weights, query)
    IN  IF \E i \in 1..Len(data) : "title" \notin DOMAIN data[i]
        THEN [raised |-> "KeyError", top_indices |-> <<>>]
        ELSE IF Len(self.doc_embeddings.rows) = 0
        THEN \* encode([]) is an empty 1-d array: np.dot of it and the query
             \* vector raises on the shape mismatch
             [raised |-> "ValueError", top_indices |-> <<>>]
        ELSE [raised |-> "",
              top_indices |-> Reverse(argsort(Similarities(self, query_emb),
                                              argsort_ties))]

\* line 55 with the corpus sorted in place: company_data is left in the
\* order of the ranking
collect_sorting(self, top_indices, top_k) ==
    LET data == self.company_data
    IN  Found("", "embedding", data, SliceTo(top_indices, top_k),
              [self EXCEPT !.company_data =
                  [p \in 1..Len(top_indices) |-> data[top_indices[p]]]])

\* line 55: the documents at the first top_k indices of the ranking
collect(self, top_indices, top_k) ==
    Found("", "embedding", self.company_data, SliceTo(top_indices, top_k), self)

\* lines 45-61: the embedding search. similarity_threshold is in scope and
\* not read
embedding_search(self, query, top_k, similarity_threshold) ==
    LET ranked == ranking(self, query)
    IN  IF ranked.raised # ""
        THEN Found(ranked.raised, "embedding", self.company_data, <<>>, self)
        ELSE collect(self, ranked.top_indices, top_k)

\* search_data(query, top_k, similarity_threshold)
search_data(self, query, top_k, similarity_threshold) ==
    IF KeywordMode(self)
    THEN keyword_search(self, query, top_k)
    ELSE embedding_search(self, query, top_k, similarity_threshold)

(* ---------------------------- handle_request -------------------------- *)

\* request.get('query', '')
RequestQuery(request) ==
    IF "query" \in DOMAIN request THEN request.query ELSE EmptyString

SourcePrefix == <<"C", "o", "m", "p", "a", "n", "y", " ", "D", "a", "t", "a", "b", "a", "s", "e", " ", "-", " ">>

NoResponse == [results |-> <<>>, query |-> EmptyString, total_results |-> 0 - 1]

\* Python None, for a value that is a dict otherwise
NoneValue == [none |-> TRUE]

IsNone(value) == "none" \in DOMAIN value

\* the top_k of the search when the request's own top_k is honoured
RequestTopKHonoured(request) ==
    IF "top_k" \in DOMAIN request THEN request.top_k ELSE DefaultTopK

\* the top_k of the search of line 66: search_data(query) passes none, so
\* the default applies whatever the request holds
RequestTopK(request) == DefaultTopK

\* the entry of a result with the source left without its prefix
FormatResultNoPrefix(result) ==
    [title |-> result.title, content |-> result.content, source |-> result.id]

\* lines 71-75: the entry of one result in the envelope
FormatResult(result) ==
    [title |-> result.title,
     content |-> result.content,
     source |-> SourcePrefix \o result.id]

\* handle_request(request): the envelope returned, or the exception raised
handle_request(self, request) ==
    LET query == RequestQuery(request)
        found == search_data(self, query, RequestTopK(request), DefaultThreshold)
        results == found.results
    IN  IF found.raised # ""
        THEN [raised |-> found.raised, response |-> NoResponse, found |-> found]
        ELSE IF \E i \in 1..Len(results) :
                    ~({"title", "content", "id"} \subseteq DOMAIN results[i])
        THEN [raised |-> "KeyError", response |-> NoResponse, found |-> found]
        ELSE LET formatted_results ==
                     [i \in 1..Len(results) |-> FormatResult(results[i])]
             IN  [raised |-> "",
                  response |-> [results |-> formatted_results,
                                query |-> query,
                                total_results |-> Len(formatted_results)],
                  found |-> found]

\* the requests handle_request is given: with and without a query key, and
\* with further keys
Requests ==
    {[query |-> q, type |-> "company_data"] : q \in Queries}
    \cup {[type |-> "company_data"]}
    \cup {[query |-> QueryTechCorp]}
    \cup {[query |-> q, top_k |-> 1] : q \in {QueryTechCorp, QueryTeam}}

(* ------------------------- CompanyDataMCPClient ----------------------- *)

\* the client asking again when the first response holds no result
request_company_data_retrying(self, query) ==
    LET request == [query |-> query, type |-> "company_data"]
        first == handle_request(self, request)
        again == handle_request(first.found.self, request)
    IN  IF first.raised = "" /\ first.response.total_results = 0
        THEN [raised |-> again.raised, response |-> again.response,
              found |-> again.found, request |-> request, handler_calls |-> 2]
        ELSE [raised |-> first.raised, response |-> first.response,
              found |-> first.found, request |-> request, handler_calls |-> 1]

\* request_company_data(query), lines 90-102: the request built, the
\* server's handler awaited once, its response (or its exception) passed on
request_company_data(self, query) ==
    LET request == [query |-> query, type |-> "company_data"]
        response == handle_request(self, request)
    IN  [raised |-> response.raised, response |-> response.response,
         found |-> response.found, request |-> request, handler_calls |-> 1]

NoDataText == <<"N", "o", " ", "r", "e", "l", "e", "v", "a", "n", "t", " ", "c", "o", "m", "p", "a", "n", "y", " ", "i", "n", "f", "o", "r", "m", "a", "t", "i", "o", "n", " ", "f", "o", "u", "n", "d", ".">>

Header == <<"C", "O", "M", "P", "A", "N", "Y", " ", "I", "N", "F", "O", "R", "M", "A", "T", "I", "O", "N", ":", "\n", "\n">>

Dashes == <<"-", "-", "-">>

NewLine == <<"\n">>

\* the block of one result without the blank line that ends it
FormatEntryTight(result) ==
    Dashes \o Space \o result.title \o Space \o Dashes \o NewLine
    \o result.content \o NewLine

\* lines 113-115: the block of one result
FormatEntry(result) ==
    Dashes \o Space \o result.title \o Space \o Dashes \o NewLine
    \o result.content \o NewLine \o NewLine

RECURSIVE FormatEntries(_)
\* the loop of lines 112-115 over the results
FormatEntries(results) ==
    IF results = <<>> THEN <<>>
    ELSE FormatEntry(Head(results)) \o FormatEntries(Tail(results))

\* format_for_llm with an empty results list not told from a full one
format_for_llm_header_only(response) ==
    IF IsNone(response) \/ DOMAIN response = {} \/ "results" \notin DOMAIN response
    THEN NoDataText
    ELSE Header \o FormatEntries(response.results)

\* format_for_llm(response), lines 104-117
format_for_llm(response) ==
    IF \/ IsNone(response)
       \/ DOMAIN response = {}
       \/ "results" \notin DOMAIN response
       \/ response.results = <<>>
    THEN NoDataText
    ELSE Header \o FormatEntries(response.results)

(* ------------------------------ actions ------------------------------- *)

\* the record of a call: which operation, its arguments, what it returned
Call(op, query, top_k, raised, path, results, top_indices, response) ==
    [op |-> op, query |-> query, top_k |-> top_k, raised |-> raised,
     path |-> path, results |-> results, top_indices |-> top_indices,
     response |-> response, request |-> NoneValue, handler_calls |-> 0,
     text |-> EmptyString]

\* the callers that may have a search in flight at the same time
Threads == {"t1", "t2"}

\* a caller with no search in flight
Idle ==
    [pc |-> "idle", op |-> "", query |-> EmptyString, top_k |-> DefaultTopK,
     raised |-> "", top_indices |-> <<>>, results |-> <<>>]

\* CompanyDataMCPServer(data_path): __init__ runs load_data once
Init ==
    /\ weights \in 0..MaxWeights
    /\ argsort_ties \in {"stable", "reversed"}
    /\ source \in Sources
    /\ threads = [t \in Threads |-> Idle]
    /\ PersistenceManagerNew
    /\ NoAgents
    /\ AppStarted
    /\ \E outcome \in ModelOutcomes :
          LET loaded == load_data(Unconstructed, source, outcome, weights)
          IN  /\ server = loaded.self
              /\ load_status = loaded.status
              /\ call = Call("__init__", EmptyString, DefaultTopK, "", "",
                             <<>>, <<>>, NoResponse)

\* load_data() called again on the constructed server
LoadData(outcome) ==
    LET loaded == load_data(server, source, outcome, weights)
    IN  /\ server' = loaded.self
        /\ load_status' = loaded.status
        /\ call' = Call("load_data", EmptyString, DefaultTopK, "", "",
                        <<>>, <<>>, NoResponse)
        /\ UNCHANGED <<source, weights, argsort_ties, threads, pm_vars,
                   adk_vars, app_vars>>

\* search_data(query, top_k, similarity_threshold)
SearchData(query, top_k, threshold) ==
    LET found == search_data(server, query, top_k, threshold)
    IN  /\ server' = found.self
        /\ call' = Call("search_data", query, top_k, found.raised, found.path,
                        found.results, found.top_indices, NoResponse)
        /\ UNCHANGED <<source, load_status, weights, argsort_ties, threads, pm_vars,
                   adk_vars, app_vars>>

\* handle_request(request)
HandleRequest(request) ==
    LET handled == handle_request(server, request)
    IN  /\ server' = handled.found.self
        /\ call' = [Call("handle_request", RequestQuery(request), DefaultTopK,
                         handled.raised, handled.found.path,
                         handled.found.results, handled.found.top_indices,
                         handled.response)
                    EXCEPT !.request = request]
        /\ UNCHANGED <<source, load_status, weights, argsort_ties, threads, pm_vars,
                   adk_vars, app_vars>>

\* client.request_company_data(query)
RequestCompanyData(query) ==
    LET asked == request_company_data(server, query)
    IN  /\ server' = asked.found.self
        /\ call' = [Call("request_company_data", query, DefaultTopK,
                         asked.raised, asked.found.path, asked.found.results,
                         asked.found.top_indices, asked.response)
                    EXCEPT !.request = asked.request,
                           !.handler_calls = asked.handler_calls]
        /\ UNCHANGED <<source, load_status, weights, argsort_ties, threads, pm_vars,
                   adk_vars, app_vars>>

\* client.format_for_llm(response). chained: the response is the one
\* request_company_data has just returned (src/app.py lines 318-319 and
\* 1145-1146), and the record of that request is kept beside the text
FormatForLlm(response, chained) ==
    /\ chained => (call.op = "request_company_data" /\ call.raised = "")
    /\ call' = IF chained
               THEN [call EXCEPT !.op = "format_for_llm",
                                 !.text = format_for_llm(response)]
               ELSE [Call("format_for_llm", EmptyString, DefaultTopK, "", "",
                          <<>>, <<>>, response)
                     EXCEPT !.text = format_for_llm(response)]
    /\ UNCHANGED <<server, source, load_status, weights, argsort_ties, threads, pm_vars,
                   adk_vars, app_vars>>

Next ==
    \/ \E outcome \in ModelOutcomes : LoadData(outcome)
    \/ \E q \in Queries, k \in TopKs, t \in Thresholds : SearchData(q, k, t)
    \/ \E r \in Requests : HandleRequest(r)
    \/ \E q \in Queries : RequestCompanyData(q)
    \/ FormatForLlm(call.response, TRUE)

Spec == Init /\ [][Next]_vars

(* ------------------- search_data on any attributes -------------------- *)

\* the well-formed documents: records with a title and a content
Documents == {d \in RecordPool : HasText(d)}

\* the embeddings load_data computes for a list of documents
EmbeddingsOf(data, w) == Array([i \in 1..Len(data) |-> encode(w, DocText(data[i]))])

\* the attribute values search_data can meet when they are set from outside
\* load_data (the attributes are public, and line 36 guards against a model
\* that is unset): any list of well-formed documents, with each of the
\* model and the embeddings present or None
AnyStores(w) ==
    UNION {{[company_data |-> d, doc_embeddings |-> e, embedding_model |-> m] :
               e \in {NoneArray, EmbeddingsOf(d, w)}, m \in {"None", ModelName}} :
           d \in SeqUpTo(Documents, MaxDocs)}

InitAnyStore ==
    /\ weights \in 0..MaxWeights
    /\ argsort_ties \in {"stable", "reversed"}
    /\ server \in AnyStores(weights)
    /\ source = [kind |-> "json", records |-> server.company_data]
    /\ load_status = "attributes_set"
    /\ threads = [t \in Threads |-> Idle]
    /\ PersistenceManagerNew
    /\ NoAgents
    /\ AppStarted
    /\ call = Call("__init__", EmptyString, DefaultTopK, "", "",
                   <<>>, <<>>, NoResponse)

NextQuery ==
    \/ \E q \in Queries, k \in TopKs, t \in Thresholds : SearchData(q, k, t)
    \/ \E r \in Requests : HandleRequest(r)
    \/ \E q \in Queries : RequestCompanyData(q)
    \/ FormatForLlm(call.response, TRUE)

\* the queries as functions of the attributes
SpecAnyStore == InitAnyStore /\ [][NextQuery]_vars

(* ------------- the client, and format_for_llm on any response -------- *)

\* the largest number of results in a response handed to format_for_llm
MaxResults == 2

\* entries of a results list: as handle_request builds them, and with the
\* title and the content alone
ResultEntries ==
    {FormatResult(DocProfile), FormatResult(DocProducts),
     [title |-> TitleProfile, content |-> ContentProfile]}

\* the dicts with a results key: any entries, any query, and a
\* total_results that need not be the length of the list
Envelopes ==
    {[results |-> r, query |-> q, total_results |-> n] :
        r \in UNION {[1..m -> ResultEntries] : m \in 0..MaxResults},
        q \in {EmptyString, QueryTechCorp},
        n \in 0..1}

\* {} and a dict without a results key
EmptyDict == <<>>

NoResultsKey == [query |-> QueryTechCorp]

\* the client's server is built on no file, an empty list, the TechCorp
\* corpus or a record without an id
InitClient ==
    /\ Init
    /\ \/ source.kind = "missing"
       \/ source.records \in {<<>>, TechCorpCorpus, <<DocNoId>>}

NextClient ==
    \/ \E q \in Queries : RequestCompanyData(q)
    \/ FormatForLlm(call.response, TRUE)
    \/ \E r \in Envelopes : FormatForLlm(r, FALSE)
    \/ FormatForLlm(NoneValue, FALSE)
    \/ FormatForLlm(EmptyDict, FALSE)
    \/ FormatForLlm(NoResultsKey, FALSE)

\* the client's two operations, format_for_llm on any argument
SpecClient == InitClient /\ [][NextClient]_vars

(* ------------------------- searches in flight ------------------------- *)

\* the calls a caller starts: search_data(query, 1) and handle_request,
\* which searches with the defaults
ThreadCalls ==
    {[op |-> "search_data", query |-> q, top_k |-> 1] :
        q \in {QueryTechCorp, QueryFounded}}
    \cup {[op |-> "handle_request", query |-> q, top_k |-> DefaultTopK] :
             q \in {QueryTechCorp, QueryFounded}}

\* the caller enters search_data
Begin(t, c) ==
    /\ threads[t].pc = "idle"
    /\ threads' = [threads EXCEPT ![t] =
                      [Idle EXCEPT !.pc = "line36", !.op = c.op,
                                   !.query = c.query, !.top_k = c.top_k]]
    /\ UNCHANGED <<server, source, load_status, weights, argsort_ties, call, pm_vars,
                   adk_vars, app_vars>>

\* line 36: embedding_model and doc_embeddings are read and the branch taken
Branch(t) ==
    /\ threads[t].pc = "line36"
    /\ threads' = [threads EXCEPT ![t].pc =
                      IF KeywordMode(server) THEN "line38" ELSE "line45"]
    /\ UNCHANGED <<server, source, load_status, weights, argsort_ties, call, pm_vars,
                   adk_vars, app_vars>>

\* lines 38-44: company_data is read and filtered
Filter(t) ==
    /\ threads[t].pc = "line38"
    /\ LET found == keyword_search(server, threads[t].query, threads[t].top_k)
       IN  /\ server' = found.self
           /\ threads' = [threads EXCEPT ![t].pc = "done",
                                         ![t].raised = found.raised,
                                         ![t].top_indices = found.top_indices,
                                         ![t].results = found.results]
    /\ UNCHANGED <<source, load_status, weights, argsort_ties, call, pm_vars,
                   adk_vars, app_vars>>

\* lines 45-54: company_data and doc_embeddings are read, top_indices is set
Rank(t) ==
    /\ threads[t].pc = "line45"
    /\ LET ranked == ranking(server, threads[t].query)
       IN  threads' = [threads EXCEPT
                          ![t].pc = IF ranked.raised = "" THEN "line55" ELSE "done",
                          ![t].raised = ranked.raised,
                          ![t].top_indices = ranked.top_indices]
    /\ UNCHANGED <<server, source, load_status, weights, argsort_ties, call, pm_vars,
                   adk_vars, app_vars>>

\* line 55: company_data is read at the first top_k indices
Collect(t) ==
    /\ threads[t].pc = "line55"
    /\ LET found == collect(server, threads[t].top_indices, threads[t].top_k)
       IN  /\ server' = found.self
           /\ threads' = [threads EXCEPT ![t].pc = "done",
                                         ![t].top_indices = found.top_indices,
                                         ![t].results = found.results]
    /\ UNCHANGED <<source, load_status, weights, argsort_ties, call, pm_vars,
                   adk_vars, app_vars>>

\* the caller has its result and may call again
Return(t) ==
    /\ threads[t].pc = "done"
    /\ threads' = [threads EXCEPT ![t] = Idle]
    /\ UNCHANGED <<server, source, load_status, weights, argsort_ties, call, pm_vars,
                   adk_vars, app_vars>>

NextConcurrent ==
    \/ \E t \in Threads, c \in ThreadCalls : Begin(t, c)
    \/ \E t \in Threads : Branch(t)
    \/ \E t \in Threads : Filter(t)
    \/ \E t \in Threads : Rank(t)
    \/ \E t \in Threads : Collect(t)
    \/ \E t \in Threads : Return(t)

\* several callers searching one constructed server, no load_data running
SpecConcurrent == Init /\ [][NextConcurrent]_vars

(* ------------------ src/persistence.py: PersistenceManager ------------ *)

\* no CompanyDataMCPServer is constructed
NoServer ==
    /\ server = Unconstructed
    /\ source = [kind |-> "missing", records |-> <<>>]
    /\ load_status = "unconstructed"
    /\ weights = 0
    /\ argsort_ties = "stable"
    /\ threads = [t \in Threads |-> Idle]
    /\ call = Call("__init__", EmptyString, DefaultTopK, "", "",
                   <<>>, <<>>, NoResponse)

UserDataPrefix == <<"u", "s", "e", "r", "_", "d", "a", "t", "a", "_">>

JsonSuffix == <<".", "j", "s", "o", "n">>

\* line 31: the file of a session, relative to storage_dir
get_user_data_path(session_id) == UserDataPrefix \o session_id \o JsonSuffix

\* a path with a directory component: storage_dir has no subdirectory, so
\* such a file can neither be created nor exist
InSubdirectory(path) == \E i \in 1..Len(path) : path[i] = "/"

\* Python values inside the saved data: a str, an int, a set
PyStr(text) == [type |-> "str", v |-> text]

PyInt(text) == [type |-> "int", v |-> text]

PySet == [type |-> "set", v |-> ""]

\* dicts handed to save_user_data, as lists of items: {"page": "home"},
\* {1: "home"} and {"visited": set()}
DataPage == <<[key |-> PyStr("page"), value |-> PyStr("home")]>>

DataIntKey == <<[key |-> PyInt("1"), value |-> PyStr("home")]>>

DataSet == <<[key |-> PyStr("visited"), value |-> PySet]>>

Datas == {DataPage, DataIntKey, DataSet}

\* the chunks json.dump writes for one item: the key as a JSON string (an
\* int key becomes its decimal text), then the value
ItemChunks(item) ==
    <<[kind |-> "key", text |-> item.key.v],
      [kind |-> "value", text |-> item.value.v]>>

RECURSIVE ItemsChunks(_)
ItemsChunks(items) ==
    IF items = <<>> THEN <<>>
    ELSE ItemChunks(Head(items)) \o ItemsChunks(Tail(items))

\* json.dump(data, f): the chunks written to f, one at a time, and whether
\* the encoder raised. A value that is not JSON-serializable raises
\* TypeError when its turn comes, after the chunks before it were written
json_dump(data) ==
    LET bad == {i \in 1..Len(data) : data[i].value.type = "set"}
    IN  IF bad = {}
        THEN [raised |-> FALSE,
              written |-> <<[kind |-> "open", text |-> "{"]>>
                          \o ItemsChunks(data)
                          \o <<[kind |-> "close", text |-> "}"]>>]
        ELSE LET first == CHOOSE i \in bad : \A j \in bad : i <= j
             IN  [raised |-> TRUE,
                  written |-> <<[kind |-> "open", text |-> "{"]>>
                              \o ItemsChunks(SubSeq(data, 1, first - 1))
                              \o <<[kind |-> "key", text |-> data[first].key.v]>>]

\* json.load(f): the dict parsed from a complete text (every key a str), or
\* JSONDecodeError
json_load(text) ==
    LET n == (Len(text) - 2) \div 2
    IN  IF /\ Len(text) >= 2
           /\ text[1].kind = "open"
           /\ text[Len(text)].kind = "close"
           /\ Len(text) = 2 * n + 2
        THEN [raised |-> FALSE,
              value |-> [i \in 1..n |->
                            [key |-> PyStr(text[2 * i].text),
                             value |-> PyStr(text[2 * i + 1].text)]]]
        ELSE [raised |-> TRUE, value |-> <<>>]

\* the files with one written or replaced, and with one removed
WithFile(fs, path, text) ==
    [n \in DOMAIN fs \cup {path} |-> IF n = path THEN text ELSE fs[n]]

WithoutFile(fs, path) == [n \in DOMAIN fs \ {path} |-> fs[n]]

\* save_user_data(session_id, data), lines 33-51: open(file_path, 'w')
\* creates or empties the file before json.dump writes to it
save_user_data(fs, session_id, data) ==
    LET file_path == get_user_data_path(session_id)
        dumped == json_dump(data)
    IN  IF InSubdirectory(file_path)
        THEN [files |-> fs, returned |-> FALSE]
        ELSE [files |-> WithFile(fs, file_path, dumped.written),
              returned |-> ~dumped.raised]

\* load_user_data(session_id), lines 53-71
load_user_data(fs, session_id) ==
    LET file_path == get_user_data_path(session_id)
    IN  IF file_path \in DOMAIN fs
        THEN LET parsed == json_load(fs[file_path])
             IN  [files |-> fs, raised |-> FALSE,
                  returned |-> IF parsed.raised THEN <<>> ELSE parsed.value]
        ELSE [files |-> fs, raised |-> FALSE, returned |-> <<>>]

\* str(uuid.uuid4()): the n-th id produced, unlike every id produced before
\* and every id a caller made up
Uuid(n) == <<"u", "u", "i", "d", "-">> \o <<IntText[n]>>

\* get_or_create_session_id without the test that the file exists
get_or_create_session_id_trusting(fs, existing_session_id, fresh) ==
    IF existing_session_id # EmptyString
    THEN [files |-> fs, returned |-> existing_session_id, generated |-> 0]
    ELSE [files |-> fs, returned |-> fresh, generated |-> 1]

\* get_or_create_session_id(existing_session_id), lines 73-90; None and ''
\* are both falsy, and both are the empty string here
get_or_create_session_id(fs, existing_session_id, fresh) ==
    IF /\ existing_session_id # EmptyString
       /\ get_user_data_path(existing_session_id) \in DOMAIN fs
    THEN [files |-> fs, returned |-> existing_session_id, generated |-> 0]
    ELSE [files |-> fs, returned |-> fresh, generated |-> 1]

RECURSIVE replace(_, _, _)
\* str.replace(old, new): every occurrence of old, left to right
replace(text, old, new) ==
    IF Len(text) < Len(old) THEN text
    ELSE IF SubSeq(text, 1, Len(old)) = old
    THEN new \o replace(SubSeq(text, Len(old) + 1, Len(text)), old, new)
    ELSE <<Head(text)>> \o replace(Tail(text), old, new)

\* Path.stem: the file name without its last suffix
stem(name) ==
    LET dots == {i \in 2..Len(name) : name[i] = "."}
    IN  IF dots = {} THEN name
        ELSE SubSeq(name, 1, (CHOOSE i \in dots : \A j \in dots : j <= i) - 1)

\* storage_dir.glob("user_data_*.json")
Globbed(fs) ==
    {n \in DOMAIN fs :
        /\ Len(n) >= Len(UserDataPrefix) + Len(JsonSuffix)
        /\ SubSeq(n, 1, Len(UserDataPrefix)) = UserDataPrefix
        /\ SubSeq(n, Len(n) - Len(JsonSuffix) + 1, Len(n)) = JsonSuffix}

\* get_all_sessions(), lines 92-103: one id per file found, here keyed by
\* the file; the order of the list is the order glob yields the files in
get_all_sessions(fs) ==
    [files |-> fs,
     returned |-> [n \in Globbed(fs) |-> replace(stem(n), UserDataPrefix, <<>>)]]

\* delete_session(session_id), lines 105-122
delete_session(fs, session_id) ==
    LET file_path == get_user_data_path(session_id)
    IN  [files |-> IF file_path \in DOMAIN fs THEN WithoutFile(fs, file_path)
                   ELSE fs,
         returned |-> TRUE]

\* the largest number of ids uuid4 is asked for
MaxUuids == 1

\* session ids callers make up: '', an id that contains the file-name prefix
\* and an id with a path separator; the others are ids uuid4 produced
IdPrefixed == UserDataPrefix \o <<"a">>

IdNested == <<"a", "/", "b">>

SessionIds == {EmptyString, IdPrefixed, IdNested}

SaveUserData(session_id, data) ==
    LET done == save_user_data(files, session_id, data)
    IN  /\ files' = done.files
        /\ saved' = IF done.returned
                    THEN [i \in DOMAIN saved \cup {session_id} |->
                             IF i = session_id THEN data ELSE saved[i]]
                    ELSE saved
        /\ pm_call' = [NoPmCall EXCEPT !.op = "save_user_data",
                                       !.session_id = session_id,
                                       !.data = data,
                                       !.returned = done.returned]
        /\ UNCHANGED <<uuids, mcp_vars, adk_vars,
                       app_vars>>

LoadUserData(session_id) ==
    LET done == load_user_data(files, session_id)
    IN  /\ files' = done.files
        /\ pm_call' = [NoPmCall EXCEPT !.op = "load_user_data",
                                       !.session_id = session_id,
                                       !.loaded = done.returned,
                                       !.raised = done.raised]
        /\ UNCHANGED <<saved, uuids, mcp_vars, adk_vars,
                       app_vars>>

GetOrCreateSessionId(existing_session_id) ==
    /\ LET done == get_or_create_session_id(files, existing_session_id,
                                            Uuid(uuids + 1))
       IN  /\ uuids + done.generated <= MaxUuids
           /\ files' = done.files
           /\ uuids' = uuids + done.generated
           /\ pm_call' = [NoPmCall EXCEPT !.op = "get_or_create_session_id",
                                          !.session_id = existing_session_id,
                                          !.id = done.returned]
    /\ UNCHANGED <<saved, mcp_vars, adk_vars, app_vars>>

GetAllSessions ==
    LET done == get_all_sessions(files)
    IN  /\ files' = done.files
        /\ pm_call' = [NoPmCall EXCEPT !.op = "get_all_sessions",
                                       !.sessions = done.returned]
        /\ UNCHANGED <<saved, uuids, mcp_vars, adk_vars,
                       app_vars>>

DeleteSession(session_id) ==
    LET done == delete_session(files, session_id)
    IN  /\ files' = done.files
        /\ saved' = IF done.returned
                    THEN [i \in DOMAIN saved \ {session_id} |-> saved[i]]
                    ELSE saved
        /\ pm_call' = [NoPmCall EXCEPT !.op = "delete_session",
                                       !.session_id = session_id,
                                       !.returned = done.returned]
        /\ UNCHANGED <<uuids, mcp_vars, adk_vars,
                       app_vars>>

InitPersistence ==
    /\ NoServer
    /\ PersistenceManagerNew
    /\ NoAgents
    /\ AppStarted

\* the ids a caller can pass: the ones it makes up and the ones it was given
KnownIds == SessionIds \cup {Uuid(n) : n \in 1..uuids}

NextPersistence ==
    \/ \E s \in KnownIds, d \in Datas : SaveUserData(s, d)
    \/ \E s \in KnownIds : LoadUserData(s)
    \/ \E s \in KnownIds : GetOrCreateSessionId(s)
    \/ GetAllSessions
    \/ \E s \in KnownIds : DeleteSession(s)

\* the operations of one PersistenceManager, one call at a time
SpecPersistence == InitPersistence /\ [][NextPersistence]_vars

(* ------------------ src/adk_agents.py: agents and registry ------------ *)

\* dict.get(key, default)
Get(d, key, default) == IF key \in DOMAIN d THEN d[key] ELSE default

\* the names of the showcase agents and of their tools, lines 196-239
Assistant == <<"A", "s", "s", "i", "s", "t", "a", "n", "t">>

Researcher == <<"R", "e", "s", "e", "a", "r", "c", "h", "e", "r">>

Analyst == <<"A", "n", "a", "l", "y", "s", "t">>

ResearchWorkflow ==
    <<"R", "e", "s", "e", "a", "r", "c", "h", "W", "o", "r", "k", "f", "l", "o", "w">>

SearchToolName ==
    <<"s", "e", "a", "r", "c", "h", "_", "c", "o", "m", "p", "a", "n", "y", "_", "d", "a", "t", "a">>

AnalyzeToolName ==
    <<"a", "n", "a", "l", "y", "z", "e", "_", "d", "a", "t", "a">>

\* the pieces of the f-strings of LlmAgent.process, lines 89-93
LlmAgentText == <<"L", "L", "M", " ", "A", "g", "e", "n", "t", " ">>

ProcessedText ==
    <<" ", "p", "r", "o", "c", "e", "s", "s", "e", "d", ":", " ">>

UsedToolsText ==
    <<"\n", "U", "s", "e", "d", " ", "t", "o", "o", "l", "s", ":", " ">>

AgentText == <<"A", "g", "e", "n", "t", " ">>

NoModelText ==
    <<" ", "r", "e", "c", "e", "i", "v", "e", "d", " ", "i", "n", "p", "u", "t", " ", "b", "u", "t", " ", "n", "o", " ", "m", "o", "d", "e", "l", " ", "i", "s", " ", "c", "o", "n", "f", "i", "g", "u", "r", "e", "d", ".">>

\* the f-strings and the canned result of simulate_multi_agent_interaction
ResearchAboutText ==
    <<"R", "e", "s", "e", "a", "r", "c", "h", " ", "a", "b", "o", "u", "t", ":", " ">>

AnalyzeResearchText ==
    <<"A", "n", "a", "l", "y", "z", "e", " ", "t", "h", "e", " ", "r", "e", "s", "e", "a", "r", "c", "h", " ", "r", "e", "s", "u", "l", "t", "s">>

AnalyzeDataForText ==
    <<"A", "n", "a", "l", "y", "z", "e", " ", "d", "a", "t", "a", " ", "f", "o", "r", ":", " ">>

NoDelegationText ==
    <<"N", "o", " ", "d", "e", "l", "e", "g", "a", "t", "i", "o", "n", " ", "w", "a", "s", " ", "n", "e", "e", "d", "e", "d", " ", "f", "o", "r", " ", "t", "h", "i", "s", " ", "q", "u", "e", "r", "y", ".">>

\* the keywords of lines 288-289
KeywordResearch == <<"r", "e", "s", "e", "a", "r", "c", "h">>

KeywordInformation ==
    <<"i", "n", "f", "o", "r", "m", "a", "t", "i", "o", "n">>

KeywordAnalyze == <<"a", "n", "a", "l", "y", "z", "e">>

KeywordData == <<"d", "a", "t", "a">>

\* queries: no keyword, research only in capitals, analysis only inside a
\* longer word, both kinds, and 'information' and 'analyze' together
QueryHello == <<"H", "e", "l", "l", "o">>

QueryResearch ==
    <<"R", "E", "S", "E", "A", "R", "C", "H", " ", "T", "e", "c", "h", "C", "o", "r", "p">>

QueryDatabase == <<"D", "a", "t", "a", "b", "a", "s", "e">>

QueryResearchData ==
    <<"R", "e", "s", "e", "a", "r", "c", "h", " ", "t", "h", "e", " ", "d", "a", "t", "a">>

QueryAnalyzeInformation ==
    <<"A", "n", "a", "l", "y", "z", "e", " ", "i", "n", "f", "o", "r", "m", "a", "t", "i", "o", "n">>

AgentQueries ==
    {QueryHello, QueryResearch, QueryDatabase, QueryResearchData,
     QueryAnalyzeInformation}

\* get_agent_card, lines 27-38: the name and the tool names; the random id
\* and the fields that repeat the name are left out
get_agent_card(self) == [name |-> self.name, capabilities |-> self.tools]

\* the keyword parameters of the tool functions, lines 165 and 177
Parameters(func) == IF func = SearchToolName THEN {"query"} ELSE {"data"}

\* self.func(**kwargs) at line 52: the mock result, or the TypeError Python
\* raises when the keywords are not the function's parameters
CallFunc(func, kwargs) ==
    IF DOMAIN kwargs = Parameters(func)
    THEN [raised |-> FALSE, error |-> "",
          value |-> IF func = SearchToolName
                    THEN [query |-> kwargs.query, results |-> "mock results"]
                    ELSE [insights |-> "mock insights", confidence |-> 85]]
    ELSE [raised |-> TRUE, error |-> "TypeError", value |-> <<>>]

\* Tool.execute without its try/except
execute_propagating(tool, kwargs) ==
    LET out == CallFunc(tool, kwargs)
    IN  [raised |-> out.raised,
         returned |-> [status |-> "success", result |-> out.value]]

\* Tool.execute, lines 49-61; a showcase tool has the name of its function
execute(tool, kwargs) ==
    LET out == CallFunc(tool, kwargs)
    IN  [raised |-> FALSE,
         returned |-> IF out.raised
                      THEN [status |-> "error", error |-> out.error]
                      ELSE [status |-> "success", result |-> out.value]]

RECURSIVE JoinQuoted(_)
JoinQuoted(names) ==
    IF names = <<>> THEN <<>>
    ELSE <<"'">> \o Head(names) \o <<"'">>
         \o (IF Len(names) > 1 THEN <<",", " ">> ELSE <<>>)
         \o JoinQuoted(Tail(names))

\* the text of a list of strings inside an f-string
ListText(names) == <<"[">> \o JoinQuoted(names) \o <<"]">>

\* LlmAgent.process, lines 73-102. tool_results lists the tools used in the
\* order of self.tools; the tools of one agent have different names
LlmAgentProcess(objs, name, input_data) ==
    LET self == objs[name]
        query == Get(input_data, "query", EmptyString)
        user == [role |-> "user", content |-> query]
        requested == Get(input_data, "requested_tools", <<>>)
        used == SelectSeq(self.tools,
                          LAMBDA t : \E i \in 1..Len(requested) : requested[i] = t)
        executed == [i \in 1..Len(used) |->
                        execute(used[i], Get(input_data, "tool_args", <<>>))]
        tool_results == [i \in 1..Len(used) |->
                            [name |-> used[i], result |-> executed[i].returned]]
        response ==
            IF self.model
            THEN LlmAgentText \o name \o ProcessedText \o query
                 \o (IF tool_results # <<>>
                     THEN UsedToolsText \o ListText(used) ELSE <<>>)
            ELSE AgentText \o name \o NoModelText
        assistant == [role |-> "assistant", content |-> response]
    IN  IF \E i \in 1..Len(used) : executed[i].raised
        THEN [objects |-> [objs EXCEPT ![name].history = Append(@, user)],
              raised |-> TRUE, returned |-> <<>>, log |-> <<>>]
        ELSE [objects |-> [objs EXCEPT ![name].history = @ \o <<user, assistant>>],
              raised |-> FALSE, log |-> <<>>,
              returned |-> [response |-> response,
                            tool_results |-> tool_results,
                            agent |-> get_agent_card(self)]]

\* the input of every agent after the first: the original input again
NextInputOriginal(input_data, agent_result) == input_data

\* lines 125-128: the input of the next agent of a workflow
NextInput(input_data, agent_result) ==
    [query |-> Get(input_data, "query", EmptyString),
     previous_result |-> agent_result]

RECURSIVE process(_, _, _, _)

RECURSIVE Delegate(_, _, _, _, _, _)
\* the loop of WorkflowAgent.process, lines 117-128, from the i-th agent on
Delegate(objs, agents, i, input_data, current_input, depth) ==
    IF i > Len(agents)
    THEN [objects |-> objs, raised |-> FALSE, results |-> <<>>, log |-> <<>>]
    ELSE LET done == process(objs, agents[i], current_input, depth + 1)
         IN  IF done.raised
             THEN [objects |-> done.objects, raised |-> TRUE,
                   results |-> <<>>, log |-> done.log]
             ELSE LET rest == Delegate(done.objects, agents, i + 1, input_data,
                                       NextInput(input_data, done.returned),
                                       depth)
                  IN  [objects |-> rest.objects, raised |-> rest.raised,
                       results |-> <<[agent |-> agents[i],
                                      result |-> done.returned]>>
                                   \o rest.results,
                       log |-> done.log \o rest.log]

\* WorkflowAgent.process, lines 112-134
WorkflowAgentProcess(objs, name, input_data, depth) ==
    LET self == objs[name]
        done == Delegate(objs, self.agents, 1, input_data, input_data, depth)
        results == done.results
    IN  IF done.raised
        THEN [objects |-> done.objects, raised |-> TRUE, returned |-> <<>>,
              log |-> done.log]
        ELSE [objects |-> done.objects, raised |-> FALSE, log |-> done.log,
              returned |-> [workflow_results |-> results,
                            final_result |-> IF results # <<>>
                                             THEN results[Len(results)].result
                                             ELSE NoneValue,
                            agent |-> get_agent_card(self)]]

\* agent.process(input_data) on an agent object, with the calls and returns
\* of process in the order they happen; depth counts the workflows around
process(objs, name, input_data, depth) ==
    LET done == IF objs[name].kind = "llm"
                THEN LlmAgentProcess(objs, name, input_data)
                ELSE WorkflowAgentProcess(objs, name, input_data, depth)
    IN  [done EXCEPT !.log =
            <<[event |-> "call", agent |-> name, depth |-> depth,
               data |-> input_data]>>
            \o done.log
            \o (IF done.raised THEN <<>>
                ELSE <<[event |-> "return", agent |-> name, depth |-> depth,
                        data |-> done.returned]>>)]

\* what a lookup in the registry returns when there is no such agent
NoAgent == [found |-> FALSE, name |-> EmptyString]

\* AgentRegistry.get_agent, lines 148-150
get_agent(reg, name) ==
    IF \E i \in 1..Len(reg) : reg[i] = name
    THEN [found |-> TRUE, name |-> name]
    ELSE NoAgent

\* AgentRegistry.get_agent_by_capability, lines 152-158
get_agent_by_capability(objs, reg, capability) ==
    LET having == {i \in 1..Len(reg) :
                      \E j \in 1..Len(objs[reg[i]].tools) :
                          objs[reg[i]].tools[j] = capability}
    IN  IF having = {} THEN NoAgent
        ELSE [found |-> TRUE,
              name |-> reg[CHOOSE i \in having : \A j \in having : i <= j]]

\* the selection with the default agent as the fallback of a failed lookup
select_agent_falling_back(objs, reg, agent_name, capability) ==
    IF agent_name # EmptyString /\ get_agent(reg, agent_name).found
    THEN get_agent(reg, agent_name)
    ELSE IF capability # EmptyString
            /\ get_agent_by_capability(objs, reg, capability).found
    THEN get_agent_by_capability(objs, reg, capability)
    ELSE get_agent(reg, Assistant)

\* lines 254-261 of process_a2a_query; None and '' are both falsy, and both
\* are the empty string here
select_agent(objs, reg, agent_name, capability) ==
    IF agent_name # EmptyString THEN get_agent(reg, agent_name)
    ELSE IF capability # EmptyString
    THEN get_agent_by_capability(objs, reg, capability)
    ELSE get_agent(reg, Assistant)

\* process_a2a_query, lines 251-276
process_a2a_query(objs, reg, query, agent_name, capability) ==
    LET agent == select_agent(objs, reg, agent_name, capability)
    IN  IF ~agent.found
        THEN [objects |-> objs, raised |-> FALSE, log |-> <<>>,
              returned |-> [status |-> "error",
                            error |-> "No suitable agent found"]]
        ELSE LET done == process(objs, agent.name, [query |-> query], 0)
             IN  IF done.raised THEN done
                 ELSE [done EXCEPT !.returned =
                          [status |-> "success", agent |-> agent.name,
                           result |-> done.returned]]

\* line 288 with the query compared as it is written
needs_research_case_sensitive(query) ==
    Contains(KeywordResearch, query) \/ Contains(KeywordInformation, query)

\* line 288
needs_research(query) ==
    \/ Contains(KeywordResearch, lower(query))
    \/ Contains(KeywordInformation, lower(query))

\* line 289
needs_analysis(query) ==
    \/ Contains(KeywordAnalyze, lower(query))
    \/ Contains(KeywordData, lower(query))

\* registry.get_agent(name) followed by await agent.process(input_data),
\* after the calls in prev; process on None raises AttributeError
Then(prev, reg, name, input_data) ==
    IF prev.raised \/ ~get_agent(reg, name).found
    THEN [prev EXCEPT !.raised = TRUE, !.returned = <<>>]
    ELSE LET done == process(prev.objects, name, input_data, 0)
         IN  [done EXCEPT !.log = prev.log \o done.log]

\* one entry of steps
StepEntry(agent, action, result) ==
    [agent |-> agent, action |-> action, result |-> result]

\* the dict returned at lines 371-375
Interaction(last, steps) ==
    IF last.raised THEN last
    ELSE [last EXCEPT !.returned =
             [status |-> "success", steps |-> steps,
              final_response |-> steps[Len(steps)].result]]

\* a local variable: F of the value of e, with e computed once
Bind(F(_), e) == CHOOSE r \in {F(x) : x \in {e}} : TRUE

\* simulate_multi_agent_interaction, lines 279-375
simulate_multi_agent_interaction(objs, reg, query) ==
    LET start == [objects |-> objs, raised |-> FALSE, returned |-> <<>>,
                  log |-> <<>>]
        Received(step1) ==
            StepEntry(Assistant, "Received query", step1.returned.response)
        Researched(step2) ==
            StepEntry(Researcher, "Delegated research task",
                      step2.returned.response)
        Analyzed(step) ==
            StepEntry(Analyst, "Delegated analysis task",
                      step.returned.response)
        Summarized(action, final) ==
            StepEntry(Assistant, action, final.returned.response)
    IN  Bind(LAMBDA step1 :
          IF needs_research(query)
          THEN Bind(LAMBDA step2 :
                 IF needs_analysis(query)
                 THEN Bind(LAMBDA step3 :
                        Bind(LAMBDA final :
                               Interaction(final,
                                   <<Received(step1), Researched(step2),
                                     Analyzed(step3),
                                     Summarized("Summarized results", final)>>),
                             Then(step3, reg, Assistant,
                                  [query |-> query,
                                   research_result |-> step2.returned,
                                   analysis_result |-> step3.returned])),
                        Then(step2, reg, Analyst,
                             [query |-> AnalyzeResearchText,
                              previous_result |-> step2.returned]))
                 ELSE Bind(LAMBDA final :
                             Interaction(final,
                                 <<Received(step1), Researched(step2),
                                   Summarized("Summarized research", final)>>),
                           Then(step2, reg, Assistant,
                                [query |-> query,
                                 research_result |-> step2.returned])),
                 Then(step1, reg, Researcher,
                      [query |-> ResearchAboutText \o query]))
          ELSE IF needs_analysis(query)
          THEN Bind(LAMBDA step2 :
                 Bind(LAMBDA final :
                        Interaction(final,
                            <<Received(step1), Analyzed(step2),
                              Summarized("Summarized analysis", final)>>),
                      Then(step2, reg, Assistant,
                           [query |-> query,
                            analysis_result |-> step2.returned])),
                 Then(step1, reg, Analyst,
                      [query |-> AnalyzeDataForText \o query]))
          ELSE Interaction(step1,
                   <<Received(step1),
                     StepEntry(Assistant, "Completed task directly",
                               NoDelegationText)>>),
          Then(start, reg, Assistant, [query |-> query]))

\* an LlmAgent as __init__ and add_tool leave it, lines 66-71 and 19-21
LlmAgent(name, model, tools) ==
    [kind |-> "llm", name |-> name, model |-> model, tools |-> tools,
     agents |-> <<>>, history |-> <<>>]

\* a WorkflowAgent as __init__ leaves it, lines 107-110
WorkflowAgent(name, agents) ==
    [kind |-> "workflow", name |-> name, model |-> FALSE, tools |-> <<>>,
     agents |-> agents, history |-> <<>>]

ShowcaseNames == <<Assistant, Researcher, Analyst, ResearchWorkflow>>

\* setup_showcase_agents(model), lines 190-248: the objects it creates and
\* the order it registers them in; model is whether a model was passed
setup_showcase_agents(model) ==
    [objects |->
        [n \in Range(ShowcaseNames) |->
            IF n = Assistant THEN LlmAgent(n, model, <<SearchToolName>>)
            ELSE IF n = Researcher THEN LlmAgent(n, model, <<SearchToolName>>)
            ELSE IF n = Analyst THEN LlmAgent(n, model, <<AnalyzeToolName>>)
            ELSE WorkflowAgent(n, <<Researcher, Analyst>>)],
     registry |-> ShowcaseNames]

\* the largest number of calls made on the agents of one registry
MaxAdkCalls == 2

\* a workflow built by hand over the showcase agents, and its agent lists:
\* none, and a workflow followed by an agent
Pipeline == <<"P", "i", "p", "e", "l", "i", "n", "e">>

PipelineLists == {<<>>, <<ResearchWorkflow, Assistant>>}

\* the inputs of a direct agent.process call: a query alone, a tool with
\* its argument, two tools without arguments, and a tool without a query
ProcessInputs ==
    {[query |-> QueryHello],
     [query |-> QueryHello, requested_tools |-> <<SearchToolName>>,
      tool_args |-> [query |-> QueryHello]],
     [query |-> QueryHello,
      requested_tools |-> <<SearchToolName, AnalyzeToolName>>],
     [requested_tools |-> <<AnalyzeToolName>>,
      tool_args |-> [data |-> "usage"]]}

\* the agent names and capabilities passed to process_a2a_query
AgentNames == {EmptyString, Analyst, ResearchWorkflow, <<"N", "o", "b", "o", "d", "y">>}

Capabilities == {EmptyString, SearchToolName, AnalyzeToolName, <<"t", "r", "a", "n", "s", "l", "a", "t", "e">>}

AdkCall(op, args, done) ==
    [op |-> op, args |-> args, raised |-> done.raised,
     returned |-> done.returned, log |-> done.log]

SetupShowcaseAgents(model) ==
    LET made == setup_showcase_agents(model)
    IN  /\ objects' = made.objects
        /\ registry' = made.registry
        /\ adk_calls' = 0
        /\ adk_call' = [NoAdkCall EXCEPT !.op = "setup_showcase_agents"]
        /\ UNCHANGED <<mcp_vars, pm_vars, app_vars>>

NewWorkflowAgent(agents) ==
    /\ registry = ShowcaseNames
    /\ Pipeline \notin DOMAIN objects
    /\ objects' = [n \in DOMAIN objects \cup {Pipeline} |->
                      IF n = Pipeline THEN WorkflowAgent(Pipeline, agents)
                      ELSE objects[n]]
    /\ adk_call' = [NoAdkCall EXCEPT !.op = "WorkflowAgent"]
    /\ UNCHANGED <<registry, adk_calls, mcp_vars, pm_vars, app_vars>>

Process(name, input_data) ==
    /\ adk_calls < MaxAdkCalls
    /\ name \in DOMAIN objects
    /\ LET done == process(objects, name, input_data, 0)
       IN  /\ objects' = done.objects
           /\ adk_call' = AdkCall("process",
                                  [agent |-> name, input |-> input_data], done)
    /\ adk_calls' = adk_calls + 1
    /\ UNCHANGED <<registry, mcp_vars, pm_vars, app_vars>>

ProcessA2aQuery(query, agent_name, capability) ==
    /\ adk_calls < MaxAdkCalls
    /\ LET done == process_a2a_query(objects, registry, query, agent_name,
                                     capability)
       IN  /\ objects' = done.objects
           /\ adk_call' = AdkCall("process_a2a_query",
                                  [query |-> query, agent_name |-> agent_name,
                                   capability |-> capability], done)
    /\ adk_calls' = adk_calls + 1
    /\ UNCHANGED <<registry, mcp_vars, pm_vars, app_vars>>

SimulateMultiAgentInteraction(query) ==
    /\ adk_calls < MaxAdkCalls
    /\ LET done == simulate_multi_agent_interaction(objects, registry, query)
       IN  /\ objects' = done.objects
           /\ adk_call' = AdkCall("simulate_multi_agent_interaction",
                                  [query |-> query], done)
    /\ adk_calls' = adk_calls + 1
    /\ UNCHANGED <<registry, mcp_vars, pm_vars, app_vars>>

InitAgents ==
    /\ NoServer
    /\ PersistenceManagerNew
    /\ NoAgents
    /\ AppStarted

NextAgents ==
    \/ \E model \in BOOLEAN : SetupShowcaseAgents(model)
    \/ \E agents \in PipelineLists : NewWorkflowAgent(agents)
    \/ \E name \in Range(ShowcaseNames) \cup {Pipeline}, input_data \in ProcessInputs :
          Process(name, input_data)
    \/ \E agent_name \in AgentNames, capability \in Capabilities :
          ProcessA2aQuery(QueryHello, agent_name, capability)
    \/ \E query \in AgentQueries : SimulateMultiAgentInteraction(query)

\* the agents of one registry, one call at a time
SpecAgents == InitAgents /\ [][NextAgents]_vars

(* ------------------ src/app.py: navigation ----------------------------- *)

\* the keys of pages in main_navigation, lines 381-388, in their order
Pages ==
    <<"home", "education", "mcp_showcase", "a2a_showcase", "integration",
      "glossary">>

\* lines 1273-1275 of main: a pending request becomes the current page
consume_request(state) ==
    IF state.navigate_to # "None"
    THEN [current_page |-> state.navigate_to, navigate_to |-> "None"]
    ELSE state

\* lines 403-409 of main_navigation: the radio's selection is one of the
\* pages, and its key becomes the current page
main_navigation(state, selection) ==
    IF \E i \in 1..Len(Pages) : Pages[i] = selection
    THEN [state EXCEPT !.current_page = selection]
    ELSE state

\* lines 1281-1292 of main: the page function called, None when no branch
\* matches
dispatch(state) ==
    IF state.current_page \in Range(Pages) THEN state.current_page ELSE "None"

\* one run of the script: main, lines 1270-1292, and track_page_visit in the
\* page function it calls
main(state, selection, visited) ==
    LET after == main_navigation(consume_request(state), selection)
        page == dispatch(after)
    IN  [session_state |-> after, rendered |-> page,
         visited_pages |-> IF page = "None" THEN visited
                           ELSE visited \cup {page}]

\* the script runs: the first run, or a rerun without a new selection
Main ==
    LET run == main(session_state, sidebar, visited_pages)
    IN  /\ session_state' = run.session_state
        /\ rendered' = run.rendered
        /\ visited_pages' = run.visited_pages
        /\ UNCHANGED <<sidebar, mcp_vars, pm_vars, adk_vars>>

\* the user picks a page in the sidebar radio, which reruns the script
SelectSidebar(selection) ==
    /\ session_state.navigate_to = "None"
    /\ sidebar' = selection
    /\ LET run == main(session_state, selection, visited_pages)
       IN  /\ session_state' = run.session_state
           /\ rendered' = run.rendered
           /\ visited_pages' = run.visited_pages
    /\ UNCHANGED <<mcp_vars, pm_vars, adk_vars>>

\* navigate_to(page), lines 49-51, called in a run of the script: the
\* request is stored and st.rerun() ends the run; the rerun is Main
NavigateTo(page) ==
    /\ session_state.navigate_to = "None"
    /\ rendered # "None"
    /\ session_state' = [session_state EXCEPT !.navigate_to = page]
    /\ UNCHANGED <<sidebar, rendered, visited_pages, mcp_vars, pm_vars,
                   adk_vars>>

InitApp ==
    /\ NoServer
    /\ PersistenceManagerNew
    /\ NoAgents
    /\ AppStarted

NextApp ==
    \/ Main
    \/ \E selection \in Range(Pages) : SelectSidebar(selection)
    \/ \E page \in Range(Pages) : NavigateTo(page)

\* one browser session of the app
SpecApp == InitApp /\ [][NextApp]_vars

(* ------------------------ claims about the search --------------------- *)

\* the similarities the last call's query has to the stored documents
CallSims == Similarities(server, encode(weights, call.query))

\* a sequence without repeated elements
Distinct(s) == \A i, j \in 1..Len(s) : s[i] = s[j] => i = j

\* C1: in embedding mode on a non-empty corpus, search_data(q, top_k = k)
\* with k >= 0 returns exactly min(k, |corpus|) documents: distinct corpus
\* documents, in non-increasing order of similarity to the query, and no
\* document left out is strictly more similar than a returned one.
C1_TopKBySimilarity ==
    (/\ call.op = "search_data"
     /\ call.path = "embedding"
     /\ call.top_k >= 0
     /\ Len(server.company_data) > 0)
    => LET data == server.company_data
           idx == call.top_indices
       IN  /\ call.raised = ""
           /\ Len(call.results) = Min(call.top_k, Len(data))
           /\ Len(idx) = Len(call.results)
           /\ Range(idx) \subseteq 1..Len(data)
           /\ Distinct(idx)
           /\ \A p \in 1..Len(idx) : call.results[p] = data[idx[p]]
           /\ \A p, q \in 1..Len(idx) :
                 p < q => ~SimLess(CallSims[idx[p]], CallSims[idx[q]])
           /\ \A p \in 1..Len(idx) : \A j \in (1..Len(data)) \ Range(idx) :
                 ~SimLess(CallSims[idx[p]], CallSims[j])

\* C1's case: three documents, top_k = 2, the two returned documents differ
\* in similarity and the one left out is strictly less similar
C1_Witness ==
    /\ call.op = "search_data"
    /\ call.path = "embedding"
    /\ call.top_k = 2
    /\ Len(server.company_data) = 3
    /\ Len(call.results) = 2
    /\ SimLess(CallSims[call.top_indices[2]], CallSims[call.top_indices[1]])
    /\ \E j \in 1..3 : /\ j \notin Range(call.top_indices)
                       /\ SimLess(CallSims[j], CallSims[call.top_indices[2]])

\* C2: when the corpus source is read and the embedding model cannot be
\* built, the store keeps the loaded documents and the keyword search for
\* "TechCorp" over the two-document TechCorp corpus returns both documents.
C2_KeywordFallbackKeepsCorpus ==
    (/\ source = [kind |-> "json", records |-> TechCorpCorpus]
     /\ load_status = "no_embedding"
     /\ call.op = "search_data"
     /\ call.query = QueryTechCorp)
    => /\ server.company_data = TechCorpCorpus
       /\ call.path = "keyword"
       /\ Range(call.results) = {DocProfile, DocProducts}
\* whether a document contains a query, compared case-insensitively, in its
\* title or its content; and the corpus indices of the documents that do
ContainsQuery ==
    [d \in Documents |->
        [q \in Queries |-> \/ Contains(lower(q), lower(d.title))
                           \/ Contains(lower(q), lower(d.content))]]

Matching(data, query) == {i \in 1..Len(data) : ContainsQuery[data[i]][query]}

\* C3: in keyword-fallback mode search_data(q) returns exactly the corpus
\* documents whose title or content contains q case-insensitively, in corpus
\* order: all of them, no other, and none when nothing matches.
C3_KeywordExactMatches ==
    (call.op = "search_data" /\ call.path = "keyword")
    => LET data == server.company_data
           idx == call.top_indices
       IN  /\ call.raised = ""
           /\ Range(idx) = Matching(data, call.query)
           /\ \A p, q \in 1..Len(idx) : p < q => idx[p] < idx[q]
           /\ Len(call.results) = Len(idx)
           /\ \A p \in 1..Len(idx) : call.results[p] = data[idx[p]]

\* C3's case: a keyword search with an upper-case query over three documents
\* that keeps some documents and drops others
C3_Witness ==
    /\ call.op = "search_data"
    /\ call.path = "keyword"
    /\ call.query # lower(call.query)
    /\ Len(server.company_data) = 3
    /\ Len(call.results) > 0
    /\ Len(call.results) < 3

\* C4: in keyword-fallback mode search_data does not truncate to top_k: it
\* returns all the matching documents, also when they are more than top_k,
\* and the result is the same for every top_k.
C4_KeywordIgnoresTopK ==
    (call.op = "search_data" /\ call.path = "keyword")
    => /\ Len(call.results) = Cardinality(Matching(server.company_data, call.query))
       /\ \A k \in TopKs :
             search_data(server, call.query, k, DefaultThreshold).results
                 = call.results

\* C4's case: a keyword search that returns more documents than top_k
C4_Witness ==
    /\ call.op = "search_data"
    /\ call.path = "keyword"
    /\ call.top_k >= 0
    /\ Len(call.results) > call.top_k
    /\ Len(call.results) >= 2
\* C5 as stated: every result search_data returns has length <= top_k, for
\* every top_k passed.
C5_LengthAtMostAnyTopK ==
    (call.op = "search_data" /\ call.raised = "")
    => Len(call.results) <= call.top_k

\* C5, amended: for every top_k >= 0, every result that search_data returns
\* (directly or inside handle_request) on a store that construction and
\* load_data can produce has length <= top_k.
C5_LengthAtMostTopK ==
    (call.op \in {"search_data", "handle_request"} /\ call.top_k >= 0)
    => Len(call.results) <= call.top_k

\* C5's case: an embedding search over three documents cut to top_k = 1
C5_Witness ==
    /\ call.op = "search_data"
    /\ call.path = "embedding"
    /\ call.top_k = 1
    /\ Len(server.company_data) = 3
    /\ Len(call.results) = 1

\* C6: similarity_threshold never changes the result: for the store, query
\* and top_k of any call, every threshold gives the same documents in the
\* same order (and the same outcome), on either path.
C6_ThresholdIgnored ==
    (call.op = "search_data")
    => \A t \in Thresholds :
          LET other == search_data(server, call.query, call.top_k, t)
          IN  /\ other.raised = call.raised
              /\ other.results = call.results
              /\ other.top_indices = call.top_indices

\* C6's case: an embedding search that returns a document whose similarity
\* is below the default threshold
C6_Witness ==
    /\ call.op = "search_data"
    /\ call.path = "embedding"
    /\ call.raised = ""
    /\ \E p \in 1..Len(call.top_indices) :
          BelowThreshold(CallSims[call.top_indices[p]], DefaultThreshold)

\* C7: when loading the corpus source fails (no readable file, malformed
\* JSON, a record without title or content) the load does not raise;
\* afterwards company_data is empty, doc_embeddings and embedding_model are
\* None, and every search_data call returns an empty list.
C7_LoadFailureEmptiesStore ==
    (load_status \in {"no_corpus", "bad_record"})
    => /\ server.company_data = <<>>
       /\ server.doc_embeddings = NoneArray
       /\ server.embedding_model = "None"
       /\ call.op \in {"__init__", "load_data"} => call.raised = ""
       /\ call.op = "search_data"
             => call.raised = "" /\ call.results = <<>>

\* C7's case: the source holds a record without a title, and a search with
\* the empty query (which every document would match) has returned
C7_Witness ==
    /\ load_status = "bad_record"
    /\ Len(source.records) = 3
    /\ call.op = "search_data"
    /\ call.query = EmptyString

\* C8: whenever the embedding path is active, there are as many embedding
\* vectors as documents and vector i is the embedding of
\* title + ' ' + content of document i, after any sequence of load_data and
\* search_data calls.
C8_EmbeddingsMatchDocuments ==
    (~KeywordMode(server))
    => LET data == server.company_data
           rows == server.doc_embeddings.rows
       IN  /\ Len(rows) = Len(data)
           /\ \A i \in 1..Len(data) :
                 rows[i] = encode(weights, data[i].title \o <<" ">> \o data[i].content)

\* C8's case: load_data called again has loaded three documents
C8_Witness ==
    /\ call.op = "load_data"
    /\ load_status = "ok"
    /\ ~KeywordMode(server)
    /\ Len(server.company_data) = 3

\* C9 as stated: once embedding initialization has failed, the server never
\* returns to embedding mode.
C9_FallbackPermanent ==
    [][load_status = "no_embedding" => KeywordMode(server')]_vars

\* C9, amended: once embedding initialization has failed, every search_data
\* and handle_request call takes the keyword path and leaves the attributes
\* as they are (no search attempts the model again); only load_data called
\* again can bring the embedding mode back.
C9_QueriesKeepFallback ==
    [][(/\ load_status = "no_embedding"
        /\ call'.op \in {"search_data", "handle_request"})
       => /\ call'.path = "keyword"
          /\ server' = server
          /\ KeywordMode(server')
          /\ load_status' = "no_embedding"]_vars

\* C9's case: a search on a server whose embedding initialization failed
C9_Witness ==
    /\ load_status = "no_embedding"
    /\ Len(source.records) = 2
    /\ call.op = "search_data"
    /\ call.path = "keyword"

\* C10: whatever the source and the model did at construction, and whatever
\* the query, search_data and handle_request return normally.
C10_NeverRaises == call.raised = ""

(* ------------------------ claims about the façade --------------------- *)

\* C11: whenever the search of handle_request returns documents that carry an
\* id, handle_request returns an envelope with exactly the keys results,
\* query and total_results: results has one entry per document returned by
\* search_data(query), in the same order, each entry being title, content and
\* source = "Company Database - " + id; total_results is the number of
\* entries; query is the request's query, '' when the request has none
C11_Envelope ==
    (call.op = "handle_request")
    => LET request == call.request
           found == search_data(server, RequestQuery(request),
                                DefaultTopK, DefaultThreshold)
           docs == found.results
           envelope == call.response
       IN  (found.raised = "" /\ \A i \in 1..Len(docs) : "id" \in DOMAIN docs[i])
           => /\ call.raised = ""
              /\ DOMAIN envelope = {"results", "query", "total_results"}
              /\ Len(envelope.results) = Len(docs)
              /\ \A i \in 1..Len(docs) :
                    /\ DOMAIN envelope.results[i] = {"title", "content", "source"}
                    /\ envelope.results[i].title = docs[i].title
                    /\ envelope.results[i].content = docs[i].content
                    /\ envelope.results[i].source =
                           <<"C", "o", "m", "p", "a", "n", "y", " ", "D", "a", "t", "a", "b", "a", "s", "e", " ", "-", " ">> \o docs[i].id
              /\ envelope.total_results = Len(envelope.results)
              /\ envelope.query = IF "query" \in DOMAIN request
                                  THEN request.query ELSE <<>>

\* a request without a query key answered with two or more entries
C11_Witness ==
    /\ call.op = "handle_request"
    /\ "query" \notin DOMAIN call.request
    /\ call.raised = ""
    /\ call.response.total_results >= 2
    /\ call.response.query = EmptyString

\* C12: handle_request searches with the default top_k and threshold and
\* reads no request key but query: every request with the same query ends
\* the same way with the same envelope, the documents found are those of
\* search_data(query) with the defaults, and in embedding mode total_results
\* never exceeds the default top_k
C12_DefaultsOnly ==
    (call.op = "handle_request")
    => /\ \A r \in Requests :
             (RequestQuery(r) = call.query)
             => LET other == handle_request(server, r)
                IN  other.raised = call.raised /\ other.response = call.response
       /\ call.results =
              search_data(server, call.query, DefaultTopK, DefaultThreshold).results
       /\ (call.path = "embedding" /\ call.raised = "")
          => call.response.total_results <= DefaultTopK

\* a request asking for top_k = 1 on a corpus of four documents, answered
\* with three
C12_Witness ==
    /\ call.op = "handle_request"
    /\ "top_k" \in DOMAIN call.request
    /\ call.request.top_k = 1
    /\ call.path = "embedding"
    /\ Len(server.company_data) = 4
    /\ call.response.total_results = DefaultTopK

(* ------------------------ claims about the client --------------------- *)

\* C13: format_for_llm returns "No relevant company information found."
\* exactly when its argument is None, is empty, has no results key or has an
\* empty results list; and formatting what request_company_data returned
\* gives that string if and only if the search returned zero documents
C13_NoDataExactly ==
    (call.op = "format_for_llm")
    => LET response == call.response
           nothing == \/ IsNone(response)
                      \/ DOMAIN response = {}
                      \/ "results" \notin DOMAIN response
                      \/ Len(response.results) = 0
       IN  /\ (call.text = <<"N", "o", " ", "r", "e", "l", "e", "v", "a", "n", "t", " ", "c", "o", "m", "p", "a", "n", "y", " ", "i", "n", "f", "o", "r", "m", "a", "t", "i", "o", "n", " ", "f", "o", "u", "n", "d", ".">>) <=> nothing
           /\ (call.path # "")
              => ((call.text = NoDataText) <=> (Len(call.results) = 0))

\* the no-data string produced from a request whose search found nothing
C13_Witness ==
    /\ call.op = "format_for_llm"
    /\ call.path # ""
    /\ call.request = [query |-> QueryTechCorp, type |-> "company_data"]
    /\ Len(call.results) = 0
    /\ call.text = NoDataText

\* the text the claim states for the first n results: the header, then one
\* block per result
RECURSIVE C14_Stated(_, _)
C14_Stated(results, n) ==
    IF n = 0
    THEN <<"C", "O", "M", "P", "A", "N", "Y", " ", "I", "N", "F", "O", "R", "M", "A", "T", "I", "O", "N", ":", "\n", "\n">>
    ELSE C14_Stated(results, n - 1)
         \o <<"-", "-", "-", " ">> \o results[n].title
         \o <<" ", "-", "-", "-", "\n">>
         \o results[n].content \o <<"\n", "\n">>

\* C14: for a non-empty results list format_for_llm returns the header
\* "COMPANY INFORMATION:\n\n" followed, in order, by
\* "--- {title} ---\n{content}\n\n" for each result and nothing else, and the
\* text is the same for every response with the same titles and contents
C14_Framing ==
    (/\ call.op = "format_for_llm"
     /\ "results" \in DOMAIN call.response
     /\ Len(call.response.results) > 0)
    => LET results == call.response.results
       IN  /\ call.text = C14_Stated(results, Len(results))
           /\ \A e \in Envelopes :
                 (/\ Len(e.results) = Len(results)
                  /\ \A i \in 1..Len(results) :
                        /\ e.results[i].title = results[i].title
                        /\ e.results[i].content = results[i].content)
                 => format_for_llm(e) = call.text

\* two results, the first without a source, formatted
C14_Witness ==
    /\ call.op = "format_for_llm"
    /\ "results" \in DOMAIN call.response
    /\ Len(call.response.results) = 2
    /\ call.response.results[1] = [title |-> TitleProfile, content |-> ContentProfile]
    /\ call.response.results[2] = FormatResult(DocProducts)
    /\ call.text = Header \o FormatEntry(DocProfile) \o FormatEntry(DocProducts)

\* C19: request_company_data(query) builds the request with the query and
\* type "company_data", has handle_request run exactly once and returns what
\* it returned: it ends as handle_request does on the request holding the
\* query alone
C19_ClientPassesThrough ==
    (call.op = "request_company_data")
    => LET direct == handle_request(server, [query |-> call.query])
       IN  /\ call.request = [query |-> call.query, type |-> "company_data"]
           /\ call.handler_calls = 1
           /\ call.raised = direct.raised
           /\ call.response = direct.response

\* a request through the client answered with documents
C19_Witness ==
    /\ call.op = "request_company_data"
    /\ call.query = QueryFounded
    /\ call.raised = ""
    /\ call.response.total_results >= 2
    /\ call.response.query = QueryFounded

(* ----------------------------- end to end ----------------------------- *)

Year == <<"2", "0", "1", "0">>

\* C15: in embedding mode a search with the default top_k over a corpus of
\* one to top_k documents returns every corpus document exactly once; so for
\* the TechCorp corpus and "When was TechCorp founded?" the Company Profile
\* is among the results, and the text format_for_llm makes of what
\* request_company_data returned contains "2010"
C15_EndToEndEmbedding ==
    LET data == server.company_data
        n == Len(data)
    IN  /\ (/\ call.op \in {"search_data", "handle_request",
                            "request_company_data", "format_for_llm"}
            /\ call.path = "embedding"
            /\ call.top_k = DefaultTopK
            /\ n >= 1 /\ n <= DefaultTopK)
           => /\ Len(call.results) = n
              /\ \A i \in 1..n :
                    Cardinality({p \in 1..n : call.top_indices[p] = i}) = 1
              /\ \A p \in 1..n : call.results[p] = data[call.top_indices[p]]
              /\ (data = TechCorpCorpus /\ call.query = QueryFounded)
                 => /\ \E p \in 1..n : call.results[p] = DocProfile
                    /\ (call.op = "format_for_llm") => Contains(Year, call.text)

\* the context of the TechCorp corpus for the founding question
C15_Witness ==
    /\ call.op = "format_for_llm"
    /\ call.path = "embedding"
    /\ server.company_data = TechCorpCorpus
    /\ call.query = QueryFounded
    /\ Len(call.results) = 2
    /\ Contains(Year, call.text)

QueryOps == {"search_data", "handle_request", "request_company_data", "format_for_llm"}

\* C17: search_data, handle_request, request_company_data and
\* format_for_llm leave company_data, doc_embeddings and embedding_model as
\* they were, and the same query asked again of the store they leave returns
\* the same result
C17_ReadOnly ==
    [][(call'.op \in QueryOps)
       => /\ server' = server
          /\ (call'.op = "search_data")
             => LET again == search_data(server', call'.query, call'.top_k,
                                         DefaultThreshold)
                IN  again.raised = call'.raised /\ again.results = call'.results
          /\ (call'.op \in {"handle_request", "request_company_data"})
             => LET again == handle_request(server', call'.request)
                IN  again.raised = call'.raised /\ again.response = call'.response
          /\ (call'.op = "format_for_llm")
             => format_for_llm(call'.response) = call'.text]_vars

\* a context formatted from an embedding search over several documents
C17_Witness ==
    /\ call.op = "format_for_llm"
    /\ call.path = "embedding"
    /\ load_status = "ok"
    /\ Len(call.results) >= 2
    /\ call.top_indices[1] # 1

\* the attributes __init__ left: those of a successful load, or those of
\* the except branch
Constructed ==
    IF load_status = "ok"
    THEN load_data(Unconstructed, source, "ok", weights).self
    ELSE LoadFailed(Unconstructed)

\* C18: however the steps of several search_data and handle_request calls
\* on one constructed server interleave, with no load_data running, the
\* attributes stay those of construction and every call that has finished
\* holds exactly what the same call returns when it runs alone
C18_ConcurrentSafe ==
    /\ server = Constructed
    /\ \A t \in Threads :
          (threads[t].pc = "done")
          => LET alone == search_data(Constructed, threads[t].query,
                                      threads[t].top_k, DefaultThreshold)
             IN  /\ threads[t].raised = alone.raised
                 /\ threads[t].results = alone.results

\* one caller has finished with documents ranked out of corpus order while
\* the other, asking something else, is between ranking and collecting
C18_Witness ==
    /\ threads["t1"].pc = "done"
    /\ threads["t1"].query = QueryFounded
    /\ Len(threads["t1"].results) >= 2
    /\ threads["t1"].top_indices[1] # 1
    /\ threads["t2"].pc = "line55"
    /\ threads["t2"].query = QueryTechCorp

(* -------------------------------- ties -------------------------------- *)

\* the similarities are equal
Tied(a, b) == ~SimLess(a, b) /\ ~SimLess(b, a)

\* the last call is an embedding search that returned
EmbeddingSearched ==
    /\ call.op \in {"search_data", "handle_request", "request_company_data"}
    /\ call.path = "embedding"
    /\ Len(call.top_indices) > 0

\* C20 as stated: documents of equal similarity are returned in the order
\* of their corpus indices, and when only one of a tied pair fits within
\* top_k it is the one with the lower index
C20_TiesByIndex ==
    EmbeddingSearched
    => LET returned == Range(call.top_indices)
       IN  /\ \A p, q \in 1..Len(call.top_indices) :
                 (p < q /\ Tied(CallSims[call.top_indices[p]],
                                CallSims[call.top_indices[q]]))
                 => call.top_indices[p] < call.top_indices[q]
           /\ \A i, j \in 1..Len(CallSims) :
                 (i < j /\ Tied(CallSims[i], CallSims[j]) /\ j \in returned)
                 => i \in returned

\* C20, amended: the order of tied documents is the one
\* np.argsort(similarities)[::-1] gives. Where argsort keeps equal elements
\* in index order, the reversal returns tied documents in decreasing corpus
\* index, and when only one of a tied pair fits within top_k it is the one
\* with the higher index; where argsort orders equal elements the other
\* way, they are returned in increasing corpus index
C20_TiesAsArgsortReversed ==
    EmbeddingSearched
    => LET returned == Range(call.top_indices)
           Earlier(i, j) == IF argsort_ties = "stable" THEN i > j ELSE i < j
       IN  /\ \A p, q \in 1..Len(call.top_indices) :
                 (p < q /\ Tied(CallSims[call.top_indices[p]],
                                CallSims[call.top_indices[q]]))
                 => Earlier(call.top_indices[p], call.top_indices[q])
           /\ \A i, j \in 1..Len(CallSims) :
                 (/\ Earlier(i, j) /\ Tied(CallSims[i], CallSims[j])
                  /\ j \in returned)
                 => i \in returned

\* under a stable argsort, of two tied documents only the one with the
\* higher index is returned
C20_Witness ==
    /\ EmbeddingSearched
    /\ argsort_ties = "stable"
    /\ \E i, j \in 1..Len(CallSims) :
          /\ i < j
          /\ Tied(CallSims[i], CallSims[j])
          /\ j \in Range(call.top_indices)
          /\ i \notin Range(call.top_indices)

(* ------------------ claims about the PersistenceManager --------------- *)

\* the data of the last save of a session that returned True, {} once the
\* session is deleted or when it was never saved
LastSaved(session_id) ==
    IF session_id \in DOMAIN saved THEN saved[session_id] ELSE <<>>

\* C21: after any saves and deletes, load_user_data(s) returns the data of
\* the most recent successful save of s, or {} if s was never saved or was
\* deleted since, and it does not raise
C21_LoadReturnsLastSave ==
    pm_call.op = "load_user_data"
        => /\ ~pm_call.raised
           /\ pm_call.loaded = LastSaved(pm_call.session_id)

\* C22 as stated: get_or_create_session_id(existing) returns existing
\* exactly when a stored file exists for that id
C22_ExistingIffStored ==
    pm_call.op = "get_or_create_session_id"
        => (pm_call.id = pm_call.session_id
                <=> get_user_data_path(pm_call.session_id) \in DOMAIN files)

\* C22: get_or_create_session_id(existing) returns existing exactly when
\* existing is a non-empty id with a stored file; otherwise it returns a
\* new id that differs from existing, from every id passed before and from
\* every id with a file; the call leaves the stored files as they were
C22_ExistingIffNonEmptyStored ==
    [][pm_call'.op = "get_or_create_session_id"
          => /\ files' = files
             /\ pm_call'.id = pm_call'.session_id
                    <=> /\ pm_call'.session_id # EmptyString
                        /\ get_user_data_path(pm_call'.session_id)
                               \in DOMAIN files
             /\ pm_call'.id # pm_call'.session_id
                    => /\ pm_call'.id \notin KnownIds
                       /\ get_user_data_path(pm_call'.id) \notin DOMAIN files]_vars

\* data was saved under the empty id, its file is there, and
\* get_or_create_session_id('') returned a new id
C22_Witness ==
    /\ pm_call.op = "get_or_create_session_id"
    /\ pm_call.session_id = EmptyString
    /\ EmptyString \in DOMAIN saved
    /\ get_user_data_path(EmptyString) \in DOMAIN files
    /\ pm_call.id = Uuid(1)

\* C23: get_all_sessions returns exactly the ids that were saved and not
\* deleted afterwards, each as it was passed to save_user_data
C23_AllSessionsAsSaved ==
    pm_call.op = "get_all_sessions"
        => {pm_call.sessions[n] : n \in DOMAIN pm_call.sessions} = DOMAIN saved

\* C29: a save that returns False leaves what load_user_data returns for
\* the session, and what get_all_sessions returns, as they were
C29_FailedSaveWithoutEffect ==
    [][pm_call'.op = "save_user_data" /\ ~pm_call'.returned
          => /\ load_user_data(files', pm_call'.session_id).returned
                    = load_user_data(files, pm_call'.session_id).returned
             /\ get_all_sessions(files').returned
                    = get_all_sessions(files).returned]_vars

(* ------------------ claims about the store after load_data ------------ *)

\* C28: between calls, embedding_model is None exactly when doc_embeddings
\* is None, and then company_data is the empty list; so a search that takes
\* the keyword path returns the empty list
C28_NoModelNoData ==
    /\ server.embedding_model = "None" <=> server.doc_embeddings = NoneArray
    /\ server.embedding_model = "None" => server.company_data = <<>>
    /\ (call.op = "search_data" /\ call.path = "keyword")
           => call.raised = "" /\ call.results = <<>>

\* a search took the keyword path after a load that read two records or more
\* and then failed to build the embeddings
C28_Witness ==
    /\ load_status = "no_embedding"
    /\ Len(source.records) >= 2
    /\ call.op = "search_data"
    /\ call.path = "keyword"
    /\ call.results = <<>>

(* ------------------ claims about the agents ---------------------------- *)

\* the positions in the last call's log where process was called on a
\* workflow agent, the position where that call returned, and the calls and
\* returns that the workflow itself made in between
WorkflowCalls ==
    {k \in 1..Len(adk_call.log) :
        /\ adk_call.log[k].event = "call"
        /\ objects[adk_call.log[k].agent].kind = "workflow"}

ReturnOf(k) ==
    LET returns == {r \in (k + 1)..Len(adk_call.log) :
                       /\ adk_call.log[r].event = "return"
                       /\ adk_call.log[r].depth = adk_call.log[k].depth}
    IN  CHOOSE r \in returns : \A q \in returns : r <= q

Delegated(k) ==
    SelectSeq(SubSeq(adk_call.log, k + 1, ReturnOf(k) - 1),
              LAMBDA e : e.depth = adk_call.log[k].depth + 1)

\* C24: a workflow agent calls process on each agent of its list once, in
\* list order, each after the one before returned; the first gets the
\* workflow's own input, each later one gets the original query with the
\* result of the agent before it; workflow_results has one entry per agent in
\* that order and final_result is the last result, None for an empty list
C24_SequentialDelegation ==
    ~adk_call.raised =>
    \A k \in WorkflowCalls :
        LET w == adk_call.log[k]
            agents == objects[w.agent].agents
            E == Delegated(k)
            out == adk_call.log[ReturnOf(k)].data
        IN  /\ Len(E) = 2 * Len(agents)
            /\ \A i \in 1..Len(agents) :
                  /\ E[2 * i - 1].event = "call"
                  /\ E[2 * i - 1].agent = agents[i]
                  /\ E[2 * i].event = "return"
                  /\ E[2 * i].agent = agents[i]
                  /\ E[2 * i - 1].data =
                        IF i = 1 THEN w.data
                        ELSE [query |-> Get(w.data, "query", EmptyString),
                              previous_result |-> E[2 * i - 2].data]
            /\ Len(out.workflow_results) = Len(agents)
            /\ \A i \in 1..Len(agents) :
                  out.workflow_results[i] =
                      [agent |-> agents[i], result |-> E[2 * i].data]
            /\ out.final_result = IF agents = <<>> THEN NoneValue
                                  ELSE E[2 * Len(agents)].data

\* process was called on a workflow whose list is a workflow of two agents
\* followed by an agent, with an input that has no query
C24_Witness ==
    /\ adk_call.op = "process"
    /\ ~adk_call.raised
    /\ adk_call.args.agent = Pipeline
    /\ objects[Pipeline].agents = <<ResearchWorkflow, Assistant>>
    /\ "query" \notin DOMAIN adk_call.args.input
    /\ Len(adk_call.log) = 10

\* C25: on the showcase registry simulate_multi_agent_interaction returns
\* status success with steps by Assistant, then Researcher if the lowercased
\* query contains research or information, then Analyst if it contains
\* analyze or data, then Assistant again; without any keyword the second
\* step is 'Completed task directly'; final_response is the last step's result
C25_KeywordBranching ==
    (adk_call.op = "simulate_multi_agent_interaction"
     /\ registry = ShowcaseNames)
    => LET q == lower(adk_call.args.query)
           research == Contains(KeywordResearch, q)
                       \/ Contains(KeywordInformation, q)
           analysis == Contains(KeywordAnalyze, q) \/ Contains(KeywordData, q)
           steps == adk_call.returned.steps
       IN  /\ ~adk_call.raised
           /\ adk_call.returned.status = "success"
           /\ [i \in 1..Len(steps) |-> steps[i].agent]
                 = <<Assistant>>
                   \o (IF research THEN <<Researcher>> ELSE <<>>)
                   \o (IF analysis THEN <<Analyst>> ELSE <<>>)
                   \o <<Assistant>>
           /\ Len(steps) \in 2..4
           /\ steps[1].action = "Received query"
           /\ (~research /\ ~analysis)
                 <=> steps[2].action = "Completed task directly"
           /\ adk_call.returned.final_response = steps[Len(steps)].result

\* a query with 'Research' and 'data' went through four steps
C25_Witness ==
    /\ adk_call.op = "simulate_multi_agent_interaction"
    /\ adk_call.args.query = QueryResearchData
    /\ ~adk_call.raised
    /\ Len(adk_call.returned.steps) = 4

\* the registered agents process_a2a_query may select for a name and a
\* capability: none or one
Selectable(agent_name, capability) ==
    IF agent_name # EmptyString THEN {agent_name} \cap Range(registry)
    ELSE IF capability # EmptyString
    THEN {registry[i] : i \in
             {j \in 1..Len(registry) :
                 /\ capability \in Range(objects[registry[j]].tools)
                 /\ \A h \in 1..(j - 1) :
                       capability \notin Range(objects[registry[h]].tools)}}
    ELSE {Assistant} \cap Range(registry)

\* C26: process_a2a_query selects by agent_name when given, else by
\* capability (the first registered agent that has it), else Assistant;
\* without an agent it returns the error dict and calls process on nobody,
\* otherwise status success, the agent's name and the result of the one
\* process call it made on that agent
C26_AgentSelection ==
    adk_call.op = "process_a2a_query"
    => LET selectable == Selectable(adk_call.args.agent_name,
                                    adk_call.args.capability)
           top == SelectSeq(adk_call.log,
                            LAMBDA e : e.event = "call" /\ e.depth = 0)
       IN  /\ ~adk_call.raised
           /\ selectable = {}
                 => /\ adk_call.returned.status = "error"
                    /\ adk_call.returned.error = "No suitable agent found"
                    /\ adk_call.log = <<>>
           /\ selectable # {}
                 => /\ adk_call.returned.status = "success"
                    /\ adk_call.returned.agent \in selectable
                    /\ Len(top) = 1
                    /\ top[1].agent = adk_call.returned.agent
                    /\ top[1].data = [query |-> adk_call.args.query]
                    /\ adk_call.returned.result
                          = adk_call.log[Len(adk_call.log)].data

\* a name and a capability of another agent were given, and the named agent
\* processed the query
C26_Witness ==
    /\ adk_call.op = "process_a2a_query"
    /\ adk_call.args.agent_name = Analyst
    /\ adk_call.args.capability = SearchToolName
    /\ adk_call.returned.status = "success"
    /\ adk_call.returned.agent = Analyst

\* C27: process on an LlmAgent returns a response, with status error for
\* each requested tool whose function raised and status success with the
\* result for each other one, and adds one user and one assistant entry to
\* the agent's history
C27_ToolFailuresContained ==
    [][(/\ adk_call'.op = "process"
        /\ objects[adk_call'.args.agent].kind = "llm")
       => LET a == adk_call'.args.agent
              input_data == adk_call'.args.input
              before == objects[a].history
              after == objects'[a].history
              out == adk_call'.returned
          IN  /\ ~adk_call'.raised
              /\ Len(after) = Len(before) + 2
              /\ SubSeq(after, 1, Len(before)) = before
              /\ after[Len(before) + 1].role = "user"
              /\ after[Len(before) + 2]
                    = [role |-> "assistant", content |-> out.response]
              /\ \A i \in 1..Len(out.tool_results) :
                    LET kwargs == Get(input_data, "tool_args", <<>>)
                        fails == DOMAIN kwargs
                                    # Parameters(out.tool_results[i].name)
                        result == out.tool_results[i].result
                    IN  IF fails
                        THEN /\ result.status = "error"
                             /\ "error" \in DOMAIN result
                        ELSE /\ result.status = "success"
                             /\ "result" \in DOMAIN result]_vars

\* an LlmAgent that had processed an input before was asked for a tool
\* without the tool's argument, and returned the tool's error
C27_Witness ==
    /\ adk_call.op = "process"
    /\ objects[adk_call.args.agent].kind = "llm"
    /\ ~adk_call.raised
    /\ \E i \in 1..Len(adk_call.returned.tool_results) :
          adk_call.returned.tool_results[i].result.status = "error"
    /\ Len(objects[adk_call.args.agent].history) = 4

(* ------------------ claims about the navigation ------------------------ *)

\* C30: the run of the script that follows navigate_to(page) resets
\* navigate_to to None and dispatches to the requested page, with
\* current_page equal to it, whatever the sidebar selection is
C30_NavigationTakesEffect ==
    [][session_state.navigate_to # "None"
          => /\ session_state'.navigate_to = "None"
             /\ session_state'.current_page = session_state.navigate_to
             /\ rendered' = session_state.navigate_to]_vars

====
